---- MODULE Spec2Model ----
(***************************************************************************)
(* Model of the document structuring and hybrid retrieval code of          *)
(* secouristia: the fiche parser and the fallback chunk splitter of the    *)
(* import script, and searchDocuments of the API routes.                   *)
(*                                                                         *)
(* Strings are sequences of one-character strings.  The circled digits     *)
(* U+2460 and U+2461 are written "(1)" and "(2)": each is ONE character of *)
(* the text (one UTF-16 unit in the source).  Offsets are 0-based as in    *)
(* the source; s[k+1] is the character at offset k.                        *)
(***************************************************************************)
EXTENDS Integers, Sequences, FiniteSets, TLC

VARIABLES
  \* splitIntoPSEFiches (import script)
  fpc, ftext, fcleaned, fmatches, flastIndex, fiches,
  \* splitIntoChunks (import script)
  cpc, ctext, ccleaned, cstart, cwindows, chunks,
  \* searchDocuments (API routes)
  spc, variant, query, originalQuery, sourceFilter, storeSims, embedFailed,
  vectorError, exactError, textError, vectorResults, exactResults, textResults,
  combinedResults, filteredResults, result,
  \* POST (API routes)
  ppc, body, question, filterArg, reformOutcome, technicalQuery, documents,
  answerFailed, response,
  \* two calls of searchDocuments, one after the other
  run, firstOutcome, firstResult,
  \* main (import script)
  ipc, idir, iargv, ifiles, ifile, iname, itext, iitems, iitem, imported, errors,
  outcomes, delays, store, summary

fvars == <<fpc, ftext, fcleaned, fmatches, flastIndex, fiches>>
cvars == <<cpc, ctext, ccleaned, cstart, cwindows, chunks>>
svars == <<spc, variant, query, originalQuery, sourceFilter, storeSims, embedFailed,
           vectorError, exactError, textError, vectorResults, exactResults,
           textResults, combinedResults, filteredResults, result>>
pvars == <<ppc, body, question, filterArg, reformOutcome, technicalQuery, documents,
           answerFailed, response>>
tvars == <<run, firstOutcome, firstResult>>
ivars == <<ipc, idir, iargv, ifiles, ifile, iname, itext, iitems, iitem, imported, errors,
           outcomes, delays, store, summary>>
vars == <<fvars, cvars, svars, pvars, tvars, ivars>>

(***************************************************************************)
(* Bounds of the model.                                                    *)
(***************************************************************************)
\* Number of segments (headers, bodies, near-headers) a document text is made of.
MaxSegs == 3
\* Number of entries of the documents directory.
MaxFiles == 2

(***************************************************************************)
(* JavaScript string primitives.                                           *)
(***************************************************************************)
Min2(a, b) == IF a < b THEN a ELSE b
Max2(a, b) == IF a > b THEN a ELSE b

\* The marker of a character that a replace() removes.
DROP == "<drop>"

\* \s of a JavaScript regular expression, over the characters of the model.
IsWs(c) == c \in {" ", "\n", "\r", "\t"}
\* \d
IsDigit(c) == c \in {"0", "1", "2", "3", "4", "5", "6", "7", "8", "9"}

\* s.charAt(k): the character at offset k, "" past the end.
At(s, k) == IF k >= 0 /\ k < Len(s) THEN s[k + 1] ELSE ""

\* s.slice(a, b) for 0 <= a.
Slice(s, a, b) == SubSeq(s, a + 1, Min2(b, Len(s)))

\* The end of a replace() that maps every character on itself, on another one
\* or on nothing: the characters that were not removed.
Kept(marked) == SelectSeq(marked, LAMBDA c : c # DROP)

RECURSIVE CountLead(_, _)
CountLead(s, n) ==
  IF n < Len(s) /\ IsWs(s[n + 1]) THEN CountLead(s, n + 1) ELSE n

RECURSIVE CountTrail(_, _)
CountTrail(s, n) ==
  IF n < Len(s) /\ IsWs(s[Len(s) - n]) THEN CountTrail(s, n + 1) ELSE n

\* s.trim()
Trim(s) ==
  LET a == CountLead(s, 0)
  IN  IF a = Len(s) THEN << >> ELSE SubSeq(s, a + 1, Len(s) - CountTrail(s, 0))

\* Length of the run of whitespace (of digits) that starts at offset k.
RECURSIVE WsRun(_, _)
WsRun(s, k) == IF IsWs(At(s, k)) THEN 1 + WsRun(s, k + 1) ELSE 0

RECURSIVE DigitRun(_, _)
DigitRun(s, k) == IF IsDigit(At(s, k)) THEN 1 + DigitRun(s, k + 1) ELSE 0

\* Offsets of the first and last character of the whitespace run around offset k.
RECURSIVE WsLo(_, _)
WsLo(s, k) == IF IsWs(At(s, k - 1)) THEN WsLo(s, k - 1) ELSE k

RECURSIVE WsHi(_, _)
WsHi(s, k) == IF IsWs(At(s, k + 1)) THEN WsHi(s, k + 1) ELSE k

\* .replace(/\r\n/g, "\n")
CrLfChar(s, i) == IF s[i] = "\r" /\ At(s, i) = "\n" THEN DROP ELSE s[i]
ReplaceCrLf(s) == Kept([i \in 1..Len(s) |-> CrLfChar(s, i)])

\* .replace(/\n{4,}/g, "\n\n\n"): the 4th and later newlines of a run go.
Nl4Char(s, i) ==
  IF s[i] = "\n" /\ At(s, i - 2) = "\n" /\ At(s, i - 3) = "\n" /\ At(s, i - 4) = "\n"
  THEN DROP ELSE s[i]
ReplaceNl4(s) == Kept([i \in 1..Len(s) |-> Nl4Char(s, i)])

\* .replace(/\n{3,}/g, "\n\n"): the 3rd and later newlines of a run go.
Nl3Char(s, i) ==
  IF s[i] = "\n" /\ At(s, i - 2) = "\n" /\ At(s, i - 3) = "\n"
  THEN DROP ELSE s[i]
ReplaceNl3(s) == Kept([i \in 1..Len(s) |-> Nl3Char(s, i)])

\* .replace(/\s+/g, " "): a run of whitespace becomes one space.
WsPlusChar(s, i) ==
  IF ~IsWs(s[i]) THEN s[i]
  ELSE IF IsWs(At(s, i - 2)) THEN DROP ELSE " "
ReplaceWsPlus(s) == Kept([i \in 1..Len(s) |-> WsPlusChar(s, i)])

\* .replace(/\s{3,}/g, "  "): a run of 3 or more whitespace characters becomes
\* two spaces.
Ws3Char(s, i) ==
  IF ~IsWs(s[i]) THEN s[i]
  ELSE LET lo == WsLo(s, i - 1)
           hi == WsHi(s, i - 1)
       IN  IF hi - lo + 1 < 3 THEN s[i]
           ELSE IF i - 1 - lo < 2 THEN " " ELSE DROP
ReplaceWs3(s) == Kept([i \in 1..Len(s) |-> Ws3Char(s, i)])

\* .replace(/\n\s*\n\s*\n/g, "\n\n"): in a whitespace run that holds 3 or more
\* newlines, the stretch from its first to its last newline becomes two newlines
\* (the match is leftmost and \s* is greedy).
NlWsChar(s, i) ==
  IF ~IsWs(s[i]) THEN s[i]
  ELSE LET lo  == WsLo(s, i - 1)
           hi  == WsHi(s, i - 1)
           nls == {k \in lo..hi : At(s, k) = "\n"}
       IN  IF Cardinality(nls) < 3 THEN s[i]
           ELSE LET first == CHOOSE k \in nls : \A j \in nls : k <= j
                    last  == CHOOSE k \in nls : \A j \in nls : k >= j
                IN  IF i - 1 < first \/ i - 1 > last THEN s[i]
                    ELSE IF i - 1 = first \/ i - 1 = last THEN "\n" ELSE DROP
ReplaceNlWs(s) == Kept([i \in 1..Len(s) |-> NlWsChar(s, i)])

RECURSIVE Flatten(_)
Flatten(ss) == IF ss = << >> THEN << >> ELSE Head(ss) \o Flatten(Tail(ss))

(***************************************************************************)
(* The import script: constants.                                           *)
(***************************************************************************)
CHUNK_SIZE == 500
CHUNK_OVERLAP == 100
\* A chunk is kept when chunk.length > 50.
MIN_CHUNK_LENGTH == 50
\* detectPSELevel reads ficheContent.slice(0, 200).
LEVEL_WINDOW == 200
\* detectPSELevel returns null: no level.
NO_LEVEL == 0

CHAPTER_NAMES ==
  [c \in {"01", "02", "03", "04", "05", "06", "07", "08", "09", "10", "11", "12"} |->
     CASE c = "01" -> "Attitude et comportement"
       [] c = "02" -> "Bilans"
       [] c = "03" -> "Protection et securite"
       [] c = "04" -> "Hygiene et asepsie"
       [] c = "05" -> "Urgences vitales"
       [] c = "06" -> "Malaises et affections"
       [] c = "07" -> "Atteintes circonstancielles"
       [] c = "08" -> "Traumatismes"
       [] c = "09" -> "Souffrance psychique"
       [] c = "10" -> "Relevage et brancardage"
       [] c = "11" -> "Situations a nombreuses victimes"
       [] c = "12" -> "Divers"]

FICHE_TYPES ==
  [t \in {"AC", "PR", "FT"} |->
     CASE t = "AC" -> "Apport de Connaissances"
       [] t = "PR" -> "Procedure"
       [] t = "FT" -> "Fiche Technique"]

(***************************************************************************)
(* PSE_FICHE_PATTERN:                                                      *)
(*   /\[(\d{2})(AC|PR|FT)(\d+)\s*\/\s*(\d{2})-(\d{4})\]/g                  *)
(***************************************************************************)
NoMatch == [ok |-> FALSE]

\* The match of the pattern that starts at offset i, if there is one.  \d+ and
\* \s* are greedy and what follows each cannot start with a character of the
\* run, so there is at most one way to match.
MatchHeaderAt(s, i) ==
  LET n  == DigitRun(s, i + 5)
      j1 == i + 5 + n
      j2 == j1 + WsRun(s, j1) + 1
      j3 == j2 + WsRun(s, j2)
  IN  IF /\ At(s, i) = "["
         /\ IsDigit(At(s, i + 1)) /\ IsDigit(At(s, i + 2))
         /\ <<At(s, i + 3), At(s, i + 4)>> \in {<<"A", "C">>, <<"P", "R">>, <<"F", "T">>}
         /\ n >= 1
         /\ At(s, j2 - 1) = "/"
         /\ IsDigit(At(s, j3)) /\ IsDigit(At(s, j3 + 1))
         /\ At(s, j3 + 2) = "-"
         /\ \A k \in 3..6 : IsDigit(At(s, j3 + k))
         /\ At(s, j3 + 7) = "]"
      THEN [ok |-> TRUE, index |-> i, end |-> j3 + 8,
            fullMatch |-> Slice(s, i, j3 + 8),
            chapter |-> Slice(s, i + 1, i + 3),
            ficheType |-> Slice(s, i + 3, i + 5),
            ficheNumber |-> Slice(s, i + 5, j1),
            month |-> Slice(s, j3, j3 + 2),
            year |-> Slice(s, j3 + 3, j3 + 7)]
      ELSE NoMatch

\* regex.exec(cleanedText) with regex.lastIndex = from: the leftmost match at or
\* after from.
ExecFrom(s, from) ==
  LET starts == {i \in from..(Len(s) - 1) : MatchHeaderAt(s, i).ok}
  IN  IF starts = {} THEN NoMatch
      ELSE MatchHeaderAt(s, CHOOSE i \in starts : \A j \in starts : i <= j)

\* The printable form of a short string of digits and letters (a key of the
\* lookup tables).
RECURSIVE Str(_)
Str(s) == IF s = << >> THEN "" ELSE Head(s) \o Str(Tail(s))

(***************************************************************************)
(* detectPSELevel                                                          *)
(***************************************************************************)
IsPSEAt(s, i) ==
  /\ At(s, i) \in {"P", "p"}
  /\ At(s, i + 1) \in {"S", "s"}
  /\ At(s, i + 2) \in {"E", "e"}

\* /PSE\s*[X1]/i.test(text), X the circled digit.
HasLevelMark(s, marks) ==
  \E i \in 0..(Len(s) - 1) :
    IsPSEAt(s, i) /\ At(s, i + 3 + WsRun(s, i + 3)) \in marks

\* The test of level 2 before the test of level 1.
detectPSELevelTwoFirst(text) ==
  IF HasLevelMark(text, {"(2)", "2"}) THEN 2
  ELSE IF HasLevelMark(text, {"(1)", "1"}) THEN 1
  ELSE NO_LEVEL

\* Lines 146-152.
detectPSELevel(text) ==
  IF HasLevelMark(text, {"(1)", "1"}) THEN 1
  ELSE IF HasLevelMark(text, {"(2)", "2"}) THEN 2
  ELSE NO_LEVEL

(***************************************************************************)
(* splitIntoPSEFiches                                                      *)
(***************************************************************************)
\* const cleanedText = text.replace(/\r\n/g, "\n").replace(/\n{4,}/g, "\n\n\n").trim()
CleanPSEText(text) == Trim(ReplaceNl4(ReplaceCrLf(text)))

\* EndIndex with the span cut one character short of the next header.
EndIndexShort(matches, i, cleaned) ==
  IF i < Len(matches) THEN matches[i + 1].index - 1 ELSE Len(cleaned)

\* const endIndex = nextMatch ? nextMatch.index : cleanedText.length
EndIndex(matches, i, cleaned) ==
  IF i < Len(matches) THEN matches[i + 1].index ELSE Len(cleaned)

\* FicheRef without the type code.
FicheRefNoType(chapter, ficheType, ficheNumber) == chapter \o ficheNumber

\* const ficheRef = `${chapter}${ficheType}${ficheNumber}`
FicheRef(chapter, ficheType, ficheNumber) == chapter \o ficheType \o ficheNumber

\* The content without its header: what follows the marker, normalized.
NormalizeWithoutHeader(c) ==
  LET m == MatchHeaderAt(c, 0)
  IN  Trim(ReplaceNlWs(ReplaceWs3(IF m.ok THEN Slice(c, m.end, Len(c)) ELSE c)))

\* ficheContent.replace(/\s{3,}/g, "  ").replace(/\n\s*\n\s*\n/g, "\n\n").trim()
NormalizeFicheContent(c) == Trim(ReplaceNlWs(ReplaceWs3(c)))

\* The fiche built from the i-th match (1-based).  startIndex and endIndex, the
\* span of the fiche in the cleaned text, and fullMatch are locals of the loop
\* body, kept with the fiche.
MakeFiche(matches, i, cleaned) ==
  LET m          == matches[i]
      startIndex == m.index
      endIndex   == EndIndex(matches, i, cleaned)
      raw        == Trim(Slice(cleaned, startIndex, endIndex))
      ch         == Str(m.chapter)
      ty         == Str(m.ficheType)
  IN  [content       |-> NormalizeFicheContent(raw),
       chapter       |-> m.chapter,
       chapterName   |-> IF ch \in DOMAIN CHAPTER_NAMES THEN CHAPTER_NAMES[ch]
                         ELSE "Chapitre " \o ch,
       ficheType     |-> m.ficheType,
       ficheTypeName |-> IF ty \in DOMAIN FICHE_TYPES THEN FICHE_TYPES[ty] ELSE ty,
       ficheRef      |-> FicheRef(m.chapter, m.ficheType, m.ficheNumber),
       ficheNumber   |-> m.ficheNumber,
       updateDate    |-> m.month \o <<"-">> \o m.year,
       pseLevel      |-> detectPSELevel(Slice(raw, 0, LEVEL_WINDOW)),
       startIndex    |-> startIndex,
       endIndex      |-> endIndex,
       fullMatch     |-> m.fullMatch]

(***************************************************************************)
(* Document texts: every concatenation of at most MaxSegs of these         *)
(* segments.                                                               *)
(***************************************************************************)
\* a header
SegHeaderA ==
  <<"[", "0", "5", "P", "R", "0", "8", " ", "/", " ", "1", "2", "-", "2", "0", "2", "2", "]">>
\* the same fiche reference under another month-year
SegHeaderADate ==
  <<"[", "0", "5", "P", "R", "0", "8", " ", "/", " ", "0", "9", "-", "2", "0", "1", "9", "]">>
\* the same chapter and number under another type, no spaces
SegHeaderAType ==
  <<"[", "0", "5", "A", "C", "0", "8", "/", "1", "2", "-", "2", "0", "2", "2", "]">>
\* a one-digit number, a chapter outside the table
SegHeaderShort ==
  <<"[", "1", "3", "F", "T", "9", " ", "/", " ", " ", "0", "1", "-", "2", "0", "2", "0", "]">>
\* a title line with the level-1 glyph, and a body
SegBodyLevel1 ==
  <<" ", "P", "S", "E", "(1)", " ", "P", "l", "a", "i", "e", "\n", "B", "o", "d", "y", ".", " ">>
\* a level-2 mark in lower case, 5 newlines, 3 spaces
SegBodyLevel2 ==
  <<" ", "p", "s", "e", " ", "2", " ", "x", "\n", "\n", "\n", "\n", "\n", "y", " ", " ", " ", "z">>
\* not a header: a one-digit chapter
SegNearHeader ==
  <<"[", "5", "P", "R", "0", "8", " ", "/", " ", "1", "2", "-", "2", "0", "2", "2", "]">>
\* text with a CR LF
SegIntro ==
  <<"I", "n", "t", "r", "o", "\r", "\n">>
Segments == <<SegHeaderA, SegHeaderADate, SegHeaderAType, SegHeaderShort, SegBodyLevel1, SegBodyLevel2, SegNearHeader, SegIntro>>

SegmentLists == UNION {[1..n -> 1..Len(Segments)] : n \in 0..MaxSegs}
TextOf(segs) == Flatten([k \in 1..Len(segs) |-> Segments[segs[k]]])
\* A header, letters that fill the level window, and a body with a level mark:
\* the digit of the mark is the last character of the window or lies past it.
SegFiller(n) == [k \in 1..n |-> "a"]
WindowTexts ==
  {SegHeaderA \o SegFiller(LEVEL_WINDOW - Len(SegHeaderA) - n) \o b :
     n \in 4..6, b \in {SegBodyLevel1, SegBodyLevel2}}
FicheTexts == {TextOf(segs) : segs \in SegmentLists} \cup WindowTexts

FichesStart ==
  /\ ftext \in FicheTexts
  /\ fpc = "clean"
  /\ fcleaned = << >>
  /\ fmatches = << >>
  /\ flastIndex = 0
  /\ fiches = << >>

\* Lines 159-162: the text is cleaned.
FClean ==
  /\ fpc = "clean"
  /\ fcleaned' = CleanPSEText(ftext)
  /\ fpc' = "scan"
  /\ UNCHANGED <<ftext, fmatches, flastIndex, fiches>>

\* Lines 169-171: one turn of the while loop over regex.exec.
FScan ==
  /\ fpc = "scan"
  /\ LET m == ExecFrom(fcleaned, flastIndex)
     IN  IF m.ok
         THEN /\ fmatches' = Append(fmatches, m)
              /\ flastIndex' = m.end
              /\ fpc' = "scan"
         ELSE /\ fmatches' = fmatches
              /\ flastIndex' = 0
              /\ fpc' = "extract"
  /\ UNCHANGED <<ftext, fcleaned, fiches>>

\* Lines 176-219: one turn of the for loop over the matches.
FExtract ==
  /\ fpc = "extract"
  /\ Len(fiches) < Len(fmatches)
  /\ fiches' = Append(fiches, MakeFiche(fmatches, Len(fiches) + 1, fcleaned))
  /\ UNCHANGED <<fpc, ftext, fcleaned, fmatches, flastIndex>>

\* Line 221: return fiches.
FReturn ==
  /\ fpc = "extract"
  /\ Len(fiches) = Len(fmatches)
  /\ fpc' = "done"
  /\ UNCHANGED <<ftext, fcleaned, fmatches, flastIndex, fiches>>

ChunksIdle ==
  /\ cpc = "idle"
  /\ ctext = << >>
  /\ ccleaned = << >>
  /\ cstart = 0
  /\ cwindows = << >>
  /\ chunks = << >>

FichesIdle ==
  /\ fpc = "idle"
  /\ ftext = << >>
  /\ fcleaned = << >>
  /\ fmatches = << >>
  /\ flastIndex = 0
  /\ fiches = << >>

(***************************************************************************)
(* splitIntoChunks                                                         *)
(***************************************************************************)
\* text.replace(/\r\n/g, "\n").replace(/\n{3,}/g, "\n\n").replace(/\s+/g, " ").trim()
CleanChunkText(text) == Trim(ReplaceWsPlus(ReplaceNl3(ReplaceCrLf(text))))

\* s.lastIndexOf(ch, from): the last offset <= from that holds ch, or -1.
LastIndexOf(s, ch, from) ==
  LET hits == {k \in 0..Min2(from, Len(s) - 1) : At(s, k) = ch}
  IN  IF hits = {} THEN -1 ELSE CHOOSE k \in hits : \A j \in hits : k >= j

\* Lines 122-132: the end of the window that starts at start.
WindowEnd(cleaned, start) ==
  LET end == start + CHUNK_SIZE
  IN  IF end < Len(cleaned)
      THEN LET lastPeriod  == LastIndexOf(cleaned, ".", end)
               lastNewline == LastIndexOf(cleaned, "\n", end)
               breakPoint  == Max2(lastPeriod, lastNewline)
           IN  IF 2 * breakPoint > 2 * start + CHUNK_SIZE
               THEN breakPoint + 1
               ELSE end
      ELSE end

\* NextStart without the overlap.
NextStartNoOverlap(end) == end

\* NextStart with an overlap of half a window.
NextStartHalfOverlap(end) == end - CHUNK_SIZE \div 2

\* Line 139: start = end - CHUNK_OVERLAP
NextStart(end) == end - CHUNK_OVERLAP

\* Lines 134-137: the chunk of the window, with the offsets from and to of its
\* first character and of the end of its last one in the cleaned text, and
\* whether it is pushed.
WindowChunk(cleaned, start, end) ==
  LET raw   == Slice(cleaned, start, end)
      chunk == Trim(raw)
      from  == start + (IF chunk = << >> THEN 0 ELSE CountLead(raw, 0))
  IN  [content |-> chunk, from |-> from, to |-> from + Len(chunk)]

KeepChunk(chunk) == Len(chunk.content) > MIN_CHUNK_LENGTH

(***************************************************************************)
(* Texts for the splitter: a run of letters of a length around the window  *)
(* size, with full stops and whitespace at the offsets where the window    *)
(* arithmetic changes, every whitespace written as one of WsForms, and the *)
(* whole wrapped in whitespace.                                            *)
(***************************************************************************)
\* The text lengths are the multiples of 20 up to 20 * MaxLenUnits, and 501.
MaxLenUnits == 35

TextLens == {20 * k : k \in 0..MaxLenUnits} \cup {CHUNK_SIZE + 1}
DotOffsets == {CHUNK_SIZE \div 2, CHUNK_SIZE \div 2 + 1, CHUNK_SIZE - 1, CHUNK_SIZE}
SpaceOffsets == {CHUNK_SIZE - CHUNK_OVERLAP, CHUNK_SIZE - 1}
WsForms == {<<" ">>, <<"\r", "\n", "\n", "\n", " ", "\t">>}

\* The text of n characters with "." at dots and " " at spaces.
Marked(n, dots, spaces) ==
  [i \in 1..n |-> IF (i - 1) \in dots THEN "."
                  ELSE IF (i - 1) \in spaces THEN " " ELSE "a"]

\* s with each of its spaces, at the offsets of the set at, written as form.
RECURSIVE WriteWs(_, _, _)
WriteWs(s, at, form) ==
  IF at = {} THEN s
  ELSE LET k == CHOOSE x \in at : \A y \in at : x >= y
       IN  WriteWs(SubSeq(s, 1, k) \o form \o SubSeq(s, k + 2, Len(s)),
                   at \ {k}, form)

ChunkTexts ==
  {form \o WriteWs(Marked(n, dots, spaces),
                   {k \in spaces \ dots : k < n}, form) \o form :
     n \in TextLens, dots \in SUBSET DotOffsets, spaces \in SUBSET SpaceOffsets,
     form \in WsForms}

ChunksStart ==
  /\ ctext \in ChunkTexts
  /\ cpc = "clean"
  /\ ccleaned = << >>
  /\ cstart = 0
  /\ cwindows = << >>
  /\ chunks = << >>

\* Lines 115-119: the text is cleaned.
CClean ==
  /\ cpc = "clean"
  /\ ccleaned' = CleanChunkText(ctext)
  /\ cpc' = "loop"
  /\ UNCHANGED <<ctext, cstart, cwindows, chunks>>

\* Lines 121-140: one turn of the while loop.  cwindows keeps the start and end
\* of every turn.
CWindow ==
  /\ cpc = "loop"
  /\ cstart < Len(ccleaned)
  /\ LET end   == WindowEnd(ccleaned, cstart)
         chunk == WindowChunk(ccleaned, cstart, end)
     IN  /\ chunks' = IF KeepChunk(chunk) THEN Append(chunks, chunk) ELSE chunks
         /\ cwindows' = Append(cwindows, [start |-> cstart, end |-> end])
         /\ cstart' = NextStart(end)
  /\ UNCHANGED <<cpc, ctext, ccleaned>>

\* Line 142: return chunks.
CReturn ==
  /\ cpc = "loop"
  /\ cstart >= Len(ccleaned)
  /\ cpc' = "done"
  /\ UNCHANGED <<ctext, ccleaned, cstart, cwindows, chunks>>

(***************************************************************************)
(* searchDocuments: more JavaScript string primitives.                     *)
(***************************************************************************)
UPPER ==
  <<"A", "B", "C", "D", "E", "F", "G", "H", "I", "J", "K", "L", "M", "N", "O",
    "P", "Q", "R", "S", "T", "U", "V", "W", "X", "Y", "Z", "É">>
LOWER ==
  <<"a", "b", "c", "d", "e", "f", "g", "h", "i", "j", "k", "l", "m", "n", "o",
    "p", "q", "r", "s", "t", "u", "v", "w", "x", "y", "z", "é">>

ToLowerChar(c) ==
  IF \E k \in 1..Len(UPPER) : UPPER[k] = c
  THEN LOWER[CHOOSE k \in 1..Len(UPPER) : UPPER[k] = c] ELSE c
ToUpperChar(c) ==
  IF \E k \in 1..Len(LOWER) : LOWER[k] = c
  THEN UPPER[CHOOSE k \in 1..Len(LOWER) : LOWER[k] = c] ELSE c

\* s.toLowerCase(), s.toUpperCase()
ToLowerCase(s) == [i \in 1..Len(s) |-> ToLowerChar(s[i])]
ToUpperCase(s) == [i \in 1..Len(s) |-> ToUpperChar(s[i])]

\* s.includes(t)
Includes(s, t) == \E i \in 0..(Len(s) - Len(t)) : Slice(s, i, i + Len(t)) = t

RECURSIVE NonWsRun(_, _)
NonWsRun(s, k) == IF k < Len(s) /\ ~IsWs(At(s, k)) THEN 1 + NonWsRun(s, k + 1) ELSE 0

\* s.split(/\s+/): the stretches between the runs of whitespace, the empty
\* stretch before a leading run and after a trailing one included.
RECURSIVE SplitFrom(_, _)
SplitFrom(s, k) ==
  LET n == NonWsRun(s, k)
  IN  IF k + n >= Len(s) THEN <<Slice(s, k, k + n)>>
      ELSE <<Slice(s, k, k + n)>> \o SplitFrom(s, k + n + WsRun(s, k + n))
SplitWs(s) == SplitFrom(s, 0)

\* content.split("\n")[0]
FirstLine(s) ==
  LET nl == {k \in 0..(Len(s) - 1) : At(s, k) = "\n"}
  IN  IF nl = {} THEN s ELSE Slice(s, 0, CHOOSE k \in nl : \A j \in nl : k <= j)

\* The characters of a sequence, as a set.
Range(s) == {s[i] : i \in 1..Len(s)}

(***************************************************************************)
(* Similarities.  A similarity is a JavaScript number; the model counts it *)
(* in units of 1 / SIM_UNIT, which holds every value the code computes     *)
(* here exactly (sums of thousandths, of m/n with n <= 8, and products by  *)
(* 0.4), so that the comparisons are those of the real numbers.            *)
(***************************************************************************)
SIM_UNIT == 840000
\* k thousandths.
Milli(k) == k * (SIM_UNIT \div 1000)

(***************************************************************************)
(* The three searchDocuments of the routes:                                *)
(*   "fiches"   the fiche route          (unnamed/part_004, lines 682-771) *)
(*   "chatpse"  the PSE chat route       (unnamed/part_006, lines 109-193) *)
(*   "chat"     the chat route           (src/app/api/chat/route.ts,       *)
(*                                        lines 106-248)                   *)
(***************************************************************************)
Variants == {"fiches", "chatpse", "chat"}

\* match_threshold and match_count of the rpc call.
MatchThreshold(v) ==
  CASE v = "fiches" -> Milli(200) [] v = "chatpse" -> Milli(180) [] v = "chat" -> Milli(150)
MatchCount(v) ==
  CASE v = "fiches" -> 10 [] v = "chatpse" -> 12 [] v = "chat" -> 15

\* combinedResults.slice(0, K)
TopK(v) == CASE v = "fiches" -> 5 [] v = "chatpse" -> 6 [] v = "chat" -> 8

\* Whether the variant has the relevance check by title.
Gates(v) == v \in {"fiches", "chatpse"}

\* doc.similarity < 0.9
NEAR_CERTAIN == Milli(900)

\* No penalty: the similarity as it is.
PenalizedNot(sim) == sim

\* The penalty taken twice.
PenalizedTwice(sim) == (sim * 4) \div 25

\* doc.similarity *= 0.4
Penalized(sim) == (sim * 2) \div 5
\* stopWords of the fiche route and of the PSE chat route.
StopWordsFiches ==
  <<<<"q", "u", "o", "i">>,
    <<"q", "u", "e">>,
    <<"f", "a", "i", "r", "e">>,
    <<"c", "o", "m", "m", "e", "n", "t">>,
    <<"q", "u", "e", "l">>,
    <<"q", "u", "e", "l", "l", "e">>,
    <<"e", "s", "t">>,
    <<"s", "o", "n", "t">>,
    <<"c", "a", "s">>,
    <<"p", "o", "u", "r">>,
    <<"d", "a", "n", "s">>,
    <<"a", "v", "e", "c">>,
    <<"s", "a", "n", "s">>,
    <<"l", "o", "r", "s">>,
    <<"u", "n", "e">>,
    <<"q", "u", "i">>,
    <<"l", "e", "s">>,
    <<"d", "e", "s">>,
    <<"a", "u", "x">>,
    <<"t", "e", "n", "i", "r">>,
    <<"f", "a", "c", "e">>,
    <<"c", "o", "n", "d", "u", "i", "t", "e">>>>

\* stopWords of the chat route.
StopWordsChat ==
  <<<<"q", "u", "o", "i">>,
    <<"q", "u", "e">>,
    <<"f", "a", "i", "r", "e">>,
    <<"c", "o", "m", "m", "e", "n", "t">>,
    <<"q", "u", "e", "l">>,
    <<"q", "u", "e", "l", "l", "e">>,
    <<"q", "u", "e", "l", "s">>,
    <<"q", "u", "e", "l", "l", "e", "s">>,
    <<"e", "s", "t">>,
    <<"s", "o", "n", "t">>,
    <<"c", "a", "s">>,
    <<"p", "o", "u", "r">>,
    <<"d", "a", "n", "s">>,
    <<"a", "v", "e", "c">>,
    <<"s", "a", "n", "s">>,
    <<"l", "o", "r", "s">>,
    <<"u", "n", "e">>,
    <<"q", "u", "i">>,
    <<"l", "e", "s">>,
    <<"d", "e", "s">>,
    <<"a", "u", "x">>>>

StopWords(v) == IF v = "chat" THEN StopWordsChat ELSE StopWordsFiches

\* keyWords: w.length > 3 (> 2 in the chat route) && !stopWords.includes(w)
KeyWords(v, original) ==
  SelectSeq(SplitWs(ToLowerCase(original)),
            LAMBDA w : /\ Len(w) > (IF v = "chat" THEN 2 ELSE 3)
                       /\ w \notin Range(StopWords(v)))

\* allKeywords: the words of more than 2 characters of both queries, each once,
\* in the order of their first occurrence (Array.from(new Set([...]))).
RECURSIVE Unique(_)
Unique(ws) ==
  IF ws = << >> THEN << >>
  ELSE LET front == Unique(SubSeq(ws, 1, Len(ws) - 1))
           last  == ws[Len(ws)]
       IN  IF last \in Range(front) THEN front ELSE Append(front, last)

AllKeywords(technical, original) ==
  Unique(SelectSeq(SplitWs(ToLowerCase(technical)), LAMBDA w : Len(w) > 2)
         \o SelectSeq(SplitWs(ToLowerCase(original)), LAMBDA w : Len(w) > 2))

\* relevanceKeywords: w.length > 4
RelevanceKeywords(original) ==
  SelectSeq(SplitWs(ToLowerCase(original)), LAMBDA w : Len(w) > 4)

\* keyWords.filter(k => contentLower.includes(k)).length
MatchCountOf(content, keyWords) ==
  Len(SelectSeq(keyWords, LAMBDA k : Includes(ToLowerCase(content), k)))

(***************************************************************************)
(* extractDocumentTitle                                                    *)
(***************************************************************************)
\* The stretch of characters other than line terminators that starts at offset k.
RECURSIVE DotRun(_, _)
DotRun(s, k) ==
  IF k < Len(s) /\ At(s, k) \notin {"\n", "\r"} THEN 1 + DotRun(s, k + 1) ELSE 0

\* Group 1 of /pse[XY]?\s+(.+)/i matched at offset i with the optional glyph
\* taken (glyph = 1) or not (glyph = 0): \s+ gives back whitespace until (.+)
\* has a character.
TitleGroupAt(s, i, glyph) ==
  LET j     == i + 3 + glyph
      w     == WsRun(s, j)
      cands == {n \in 1..w : DotRun(s, j + n) >= 1}
  IN  IF /\ IsPSEAt(s, i)
         /\ glyph = 1 => At(s, i + 3) \in {"(1)", "(2)"}
         /\ cands # {}
      THEN LET n == CHOOSE x \in cands : \A y \in cands : x >= y
           IN  [ok |-> TRUE, group |-> Slice(s, j + n, j + n + DotRun(s, j + n))]
      ELSE [ok |-> FALSE]

TitleMatchAt(s, i) ==
  IF TitleGroupAt(s, i, 1).ok THEN TitleGroupAt(s, i, 1) ELSE TitleGroupAt(s, i, 0)

extractDocumentTitle(content) ==
  LET firstLine == ToLowerCase(FirstLine(content))
      starts    == {i \in 0..(Len(firstLine) - 1) : TitleMatchAt(firstLine, i).ok}
  IN  IF starts = {} THEN firstLine
      ELSE Trim(TitleMatchAt(firstLine,
                             CHOOSE i \in starts : \A j \in starts : i <= j).group)

\* relevanceKeywords.some(k => docTitle.includes(k))
IsOnTopic(content, original) ==
  \E k \in Range(RelevanceKeywords(original)) :
    Includes(extractDocumentTitle(content), k)

\* Lines 749-751: the similarity after the relevance check.
GatedSimilarity(v, content, similarity, original) ==
  IF Gates(v) /\ ~IsOnTopic(content, original) /\ similarity < NEAR_CERTAIN
  THEN Penalized(similarity)
  ELSE similarity

(***************************************************************************)
(* The store: the table documents, NumDocs rows.                           *)
(***************************************************************************)
\* Number of rows of the table.
NumDocs == 10
\* The similarities the store reports for a query are drawn from SimTable with
\* a stride of 1..MaxSimStride and any offset.
MaxSimStride == 2

\* a procedure fiche, title "Plaie grave", with the words "en présence"
ContentPlaie ==
  <<"[", "0", "5", "P", "R", "0", "8", " ", "/", " ", "1", "2", "-", "2", "0", "2", "2", "]", " ", "P", "S", "E", "(1)", " ", "P", "l", "a", "i", "e", " ", "g", "r", "a", "v", "e", "\n", "E", "n", " ", "p", "r", "é", "s", "e", "n", "c", "e", " ", "p", "l", "a", "i", "e">>
\* a technique fiche, title "Brulure main"
ContentBrulure ==
  <<"[", "0", "7", "F", "T", "1", "3", "/", "0", "9", "-", "2", "0", "1", "9", "]", " ", "P", "S", "E", "(2)", " ", "B", "r", "u", "l", "u", "r", "e", " ", "m", "a", "i", "n", "\n", "r", "e", "f", "r", "o", "i", "d", "i", "r", " ", "l", "a", " ", "b", "r", "u", "l", "u", "r", "e">>
\* an unstructured one-line chunk
ContentMalaise ==
  <<"M", "a", "l", "a", "i", "s", "e", ".", " ", "A", "l", "l", "o", "n", "g", "e", "r", " ", "l", "a", " ", "v", "i", "c", "t", "i", "m", "e", ",", " ", "p", "l", "a", "i", "e", " ", "s", "i", "m", "p", "l", "e", ".">>
\* a fiche whose body, not its title, speaks of "plaie grave"
ContentHemorragie ==
  <<"[", "0", "5", "A", "C", "0", "2", " ", "/", " ", "1", "2", "-", "2", "0", "2", "2", "]", " ", "P", "S", "E", " ", "H", "e", "m", "o", "r", "r", "a", "g", "i", "e", " ", "e", "x", "t", "e", "r", "n", "e", "\n", "c", "o", "m", "p", "r", "e", "s", "s", "i", "o", "n", " ", "d", "e", " ", "l", "a", " ", "p", "l", "a", "i", "e", " ", "g", "r", "a", "v", "e">>
\* the fiche 05PR08 under an older date
ContentPlaieOld ==
  <<"[", "0", "5", "P", "R", "0", "8", " ", "/", " ", "0", "9", "-", "2", "0", "1", "9", "]", " ", "P", "S", "E", "(1)", " ", "P", "l", "a", "i", "e", " ", "g", "r", "a", "v", "e", "\n", "a", "n", "c", "i", "e", "n", "n", "e", " ", "v", "e", "r", "s", "i", "o", "n">>
Contents == <<ContentPlaie, ContentBrulure, ContentMalaise, ContentHemorragie, ContentPlaieOld>>

SourcePSC ==
  <<"R", "e", "f", "e", "r", "e", "n", "t", "i", "e", "l", "_", "P", "S", "C", "1", ".", "p", "d", "f">>
SourceSST ==
  <<"G", "u", "i", "d", "e", "_", "S", "S", "T", ".", "p", "d", "f">>
SourcePSE ==
  <<"P", "S", "E", "1", "_", "2", "0", "2", "2", ".", "p", "d", "f">>
Sources == <<SourcePSC, SourceSST, SourcePSE>>

\* Row i: the odd ids belong to the PSC document, the even ones to the other two.
\* fiche_ref is what the import wrote: the reference of the header the content
\* starts with, null (<< >>) for a chunk.
FicheRefOfContent(content) ==
  LET m == ExecFrom(content, 0)
  IN  IF m.ok THEN FicheRef(m.chapter, m.ficheType, m.ficheNumber) ELSE << >>

Doc(i) ==
  [id        |-> i,
   content   |-> Contents[((i - 1) % Len(Contents)) + 1],
   source    |-> Sources[IF i % 2 = 1 THEN 1 ELSE 2 + ((i \div 2) % 2)],
   fiche_ref |-> FicheRefOfContent(Contents[((i - 1) % Len(Contents)) + 1])]
Docs == [i \in 1..NumDocs |-> Doc(i)]

\* column ILIKE '%pattern%' (the patterns of the model hold no % and no _).
ILike(text, pattern) == Includes(ToLowerCase(text), ToLowerCase(pattern))

\* The similarities 1 - (embedding <=> query_embedding) of the rows for one
\* query: what the embedding service and the store answer is not decided by
\* the code, so any assignment may come; 0 stands for a row under every
\* threshold.
SimTable == <<Milli(0), Milli(300), Milli(500), Milli(600), Milli(920), Milli(170)>>
SimProfiles ==
  {[i \in 1..NumDocs |-> SimTable[((i * p + q) % Len(SimTable)) + 1]] :
     p \in 1..MaxSimStride, q \in 0..(Len(SimTable) - 1)}
  \cup {[i \in 1..NumDocs |-> IF i = 7 THEN Milli(300)
                              ELSE IF i = 9 THEN Milli(600) ELSE Milli(0)]}

\* No sort: the rows as they come.
SortNot(rows) == rows

\* b.similarity - a.similarity as the comparator of Array.prototype.sort, which
\* is stable: a row goes behind the rows that are not smaller.
RECURSIVE SortBySimilarity(_)
SortBySimilarity(rows) ==
  IF rows = << >> THEN << >>
  ELSE LET front == SortBySimilarity(SubSeq(rows, 1, Len(rows) - 1))
           last  == rows[Len(rows)]
           n     == Cardinality({k \in 1..Len(front) :
                                   front[k].similarity >= last.similarity})
       IN  SubSeq(front, 1, n) \o <<last>> \o SubSeq(front, n + 1, Len(front))

\* A row of a pass.  raw is the similarity the pass gave and pass its name: both
\* are kept with the row to tell where a result comes from.
Row(doc, similarity, pass) ==
  [id |-> doc.id, content |-> doc.content, source |-> doc.source,
   fiche_ref |-> doc.fiche_ref,
   similarity |-> similarity, raw |-> similarity, pass |-> pass]

\* supabase.rpc("match_documents", ...): the rows over the threshold, by
\* decreasing similarity, match_count of them at most (supabase/schema.sql).
MatchDocuments(sims, threshold, count) ==
  LET rows == SelectSeq(Docs, LAMBDA d : sims[d.id] > threshold)
      hits == [k \in 1..Len(rows) |-> Row(rows[k], sims[rows[k].id], "vector")]
  IN  SubSeq(SortBySimilarity(hits), 1, Min2(count, Len(hits)))

\* The similarity of a hit of the lexical pass.
ExactScore(v, content, keyWords) ==
  CASE v = "fiches" ->
         Milli(700) + (MatchCountOf(content, keyWords) * Milli(250)) \div Len(keyWords)
    [] v = "chatpse" ->
         Milli(750) + (MatchCountOf(content, keyWords) * Milli(200)) \div Len(keyWords)
    [] v = "chat" ->
         Min2(Milli(850) + (IF Includes(ToLowerCase(content),
                                        <<"e", "n", " ", "p", "r", "é", "s", "e", "n", "c", "e">>)
                            THEN Milli(120) ELSE 0),
              Milli(990))

\* The lexical pass: the rows whose content holds each of the first 2 (3 in the
\* chat route) key words and whose source holds the filter, 10 (15) at most, in
\* the order of the table; none when there are too few key words.
LexicalPass(v, original, filter) ==
  LET keyWords == KeyWords(v, original)
      first    == SubSeq(keyWords, 1, Min2(IF v = "chat" THEN 3 ELSE 2, Len(keyWords)))
      rows     == SelectSeq(Docs, LAMBDA d :
                    /\ \A k \in 1..Len(first) : ILike(d.content, first[k])
                    /\ filter # << >> => ILike(d.source, filter))
      data     == SubSeq(rows, 1, Min2(IF v = "chat" THEN 15 ELSE 10, Len(rows)))
  IN  IF Len(keyWords) >= (IF v = "chat" THEN 2 ELSE 1)
      THEN [k \in 1..Len(data) |->
              Row(data[k], ExactScore(v, data[k].content, keyWords), "lexical")]
      ELSE << >>

\* The text pass of the chat route (lines 181-208): the rows whose content holds
\* one of the search terms, 20 at most.
TextPass(technical, original, filter) ==
  LET allKeywords == AllKeywords(technical, original)
      searchTerms == SelectSeq(allKeywords, LAMBDA k : Len(k) > 3)
      rows        == SelectSeq(Docs, LAMBDA d :
                       /\ \E k \in 1..Len(searchTerms) : ILike(d.content, searchTerms[k])
                       /\ filter # << >> => ILike(d.source, filter))
      data        == SubSeq(rows, 1, Min2(20, Len(rows)))
  IN  IF Len(searchTerms) > 0
      THEN [k \in 1..Len(data) |->
              Row(data[k],
                  Min2(Milli(400) + (MatchCountOf(data[k].content, allKeywords) * Milli(400))
                                      \div Max2(Len(allKeywords), 1),
                       Milli(800)),
                  "text")]
      ELSE << >>

\* The merge with the rows of the vector pass ahead of those of the lexical pass.
AllResultsVectorFirst(exact, vector, text) == vector \o exact \o text

\* const allResults = [...exactResults, ...(vectorResults || []), ...textResults]
AllResults(exact, vector, text) == exact \o vector \o text

\* The last row of every id instead of the first.
DedupeKeepLast(all) ==
  LET keep == {i \in 1..Len(all) : \A j \in (i + 1)..Len(all) : all[j].id # all[i].id}
      nth(n) == CHOOSE i \in keep : Cardinality({j \in keep : j < i}) = n - 1
  IN  [n \in 1..Cardinality(keep) |-> all[nth(n)]]

\* A set of seen ids that outlives the call: the rows whose id an earlier call
\* returned are dropped as well.
DedupeSeenKept(all) ==
  LET keep == {i \in 1..Len(all) :
                 /\ \A j \in 1..(i - 1) : all[j].id # all[i].id
                 /\ \A k \in 1..Len(firstResult) : firstResult[k].id # all[i].id}
      nth(n) == CHOOSE i \in keep : Cardinality({j \in keep : j < i}) = n - 1
  IN  [n \in 1..Cardinality(keep) |-> all[nth(n)]]

\* Lines 741-755: the first row of every id.
RECURSIVE Dedupe(_)
Dedupe(all) ==
  IF all = << >> THEN << >>
  ELSE LET front == Dedupe(SubSeq(all, 1, Len(all) - 1))
           last  == all[Len(all)]
       IN  IF \E k \in 1..Len(front) : front[k].id = last.id
           THEN front ELSE Append(front, last)

\* Lines 741-755: the rows kept, each with its similarity after the relevance check.
Combine(v, all, original) ==
  LET kept == Dedupe(all)
  IN  [k \in 1..Len(kept) |->
         [kept[k] EXCEPT !.similarity =
            GatedSimilarity(v, kept[k].content, kept[k].similarity, original)]]

\* The test of the source with the case of the letters kept.
SourceMatchesCase(source, filter) == Includes(source, filter)

\* doc.source.toUpperCase().includes(sourceFilter.toUpperCase())
SourceMatches(source, filter) ==
  Includes(ToUpperCase(source), ToUpperCase(filter))

\* Lines 758-762: the filter by source; an absent filter (<< >>) filters nothing.
FilterBySource(rows, filter) ==
  IF filter # << >>
  THEN SelectSeq(rows, LAMBDA d : SourceMatches(d.source, filter))
  ELSE rows

\* combinedResults.slice(0, K)
Top(rows, k) == SubSeq(rows, 1, Min2(k, Len(rows)))

\* The pairs <<query, originalQuery>> of a request: the question and its
\* reformulation (the question itself when the reformulation fell back).
QueryPairs ==
  {<<<<"h", "e", "m", "o", "r", "r", "a", "g", "i", "e", " ", "e", "x", "t", "e", "r", "n", "e", " ", "c", "o", "m", "p", "r", "e", "s", "s", "i", "o", "n", " ", "p", "l", "a", "i", "e">>,
     <<"Q", "u", "e", " ", "f", "a", "i", "r", "e", " ", "p", "l", "a", "i", "e", " ", "g", "r", "a", "v", "e", " ", "j", "a", "m", "b", "e">>>>,
   <<<<"B", "r", "u", "l", "u", "r", "e", " ", "M", "A", "I", "N">>,
     <<"B", "r", "u", "l", "u", "r", "e", " ", "M", "A", "I", "N">>>>,
   <<<<"d", "o", "u", "l", "e", "u", "r", " ", "m", "a", "i", "n">>,
     <<"m", "a", "l", " ", "m", "a", "i", "n">>>>,
   <<<<"a", "i", "e">>,
     <<"a", "i", "e">>>>,
   <<<<"p", "l", "a", "i", "e", " ", "g", "r", "a", "v", "e">>,
     <<"p", "l", "a", "i", "e", " ", "g", "r", "a", "v", "e">>>>,
   <<<<"p", "l", "a", "i", "e">>,
     <<"p", "l", "a", "i", "e">>>>}

\* The source filters: none, "PSC", and "sst" in lower case.
SourceFilters == {<< >>, <<"P", "S", "C">>, <<"s", "s", "t">>}

SearchStart ==
  /\ variant \in Variants
  /\ \E qp \in QueryPairs : query = qp[1] /\ originalQuery = qp[2]
  /\ sourceFilter \in SourceFilters
  /\ storeSims \in SimProfiles
  /\ spc = "embed"
  /\ embedFailed = FALSE
  /\ vectorError = FALSE
  /\ exactError = FALSE
  /\ textError = FALSE
  /\ vectorResults = << >>
  /\ exactResults = << >>
  /\ textResults = << >>
  /\ combinedResults = << >>
  /\ filteredResults = << >>
  /\ result = << >>

SearchIdle ==
  /\ variant = "fiches"
  /\ query = << >>
  /\ originalQuery = << >>
  /\ sourceFilter = << >>
  /\ storeSims = << >>
  /\ spc = "idle"
  /\ embedFailed = FALSE
  /\ vectorError = FALSE
  /\ exactError = FALSE
  /\ textError = FALSE
  /\ vectorResults = << >>
  /\ exactResults = << >>
  /\ textResults = << >>
  /\ combinedResults = << >>
  /\ filteredResults = << >>
  /\ result = << >>

\* const embedding = await generateEmbedding(query): the service answers.
SEmbed ==
  /\ spc = "embed"
  /\ spc' = "vector"
  /\ UNCHANGED <<variant, query, originalQuery, sourceFilter, storeSims, embedFailed,
                 vectorError, exactError, textError, vectorResults, exactResults, textResults,
                 combinedResults, filteredResults, result>>

\* generateEmbedding throws (the response is not ok, or fetch fails): the catch
\* of searchDocuments returns [].
SEmbedThrows ==
  /\ spc = "embed"
  /\ embedFailed' = TRUE
  /\ result' = << >>
  /\ spc' = "done"
  /\ UNCHANGED <<variant, query, originalQuery, sourceFilter, storeSims,
                 vectorError, exactError, textError, vectorResults, exactResults, textResults,
                 combinedResults, filteredResults>>

\* await supabase.rpc("match_documents", ...) answers with data.
SVector ==
  /\ spc = "vector"
  /\ vectorResults' = MatchDocuments(storeSims, MatchThreshold(variant), MatchCount(variant))
  /\ spc' = "lexical"
  /\ UNCHANGED <<variant, query, originalQuery, sourceFilter, storeSims, embedFailed,
                 vectorError, exactError, textError, exactResults, textResults,
                 combinedResults, filteredResults, result>>

\* The rpc answers {data: null, error}: the error is logged, vectorResults || []
\* is empty.
SVectorError ==
  /\ spc = "vector"
  /\ vectorError' = TRUE
  /\ vectorResults' = << >>
  /\ spc' = "lexical"
  /\ UNCHANGED <<variant, query, originalQuery, sourceFilter, storeSims, embedFailed,
                 exactError, textError, exactResults, textResults,
                 combinedResults, filteredResults, result>>

\* The lexical pass, its query answered with data (or not made, for want of key
\* words).
SLexical ==
  /\ spc = "lexical"
  /\ exactResults' = LexicalPass(variant, originalQuery, sourceFilter)
  /\ spc' = IF variant = "chat" THEN "text" ELSE "merge"
  /\ UNCHANGED <<variant, query, originalQuery, sourceFilter, storeSims, embedFailed,
                 vectorError, exactError, textError, vectorResults, textResults,
                 combinedResults, filteredResults, result>>

\* The query of the lexical pass answers {data: null, error}: exactResults stays [].
SLexicalError ==
  /\ spc = "lexical"
  /\ Len(KeyWords(variant, originalQuery)) >= (IF variant = "chat" THEN 2 ELSE 1)
  /\ exactError' = TRUE
  /\ exactResults' = << >>
  /\ spc' = IF variant = "chat" THEN "text" ELSE "merge"
  /\ UNCHANGED <<variant, query, originalQuery, sourceFilter, storeSims, embedFailed,
                 vectorError, textError, vectorResults, textResults,
                 combinedResults, filteredResults, result>>

\* The text pass of the chat route.
SText ==
  /\ spc = "text"
  /\ textResults' = TextPass(query, originalQuery, sourceFilter)
  /\ spc' = "merge"
  /\ UNCHANGED <<variant, query, originalQuery, sourceFilter, storeSims, embedFailed,
                 vectorError, exactError, textError, vectorResults, exactResults,
                 combinedResults, filteredResults, result>>

\* Combine and deduplicate, with the relevance check.
SCombine ==
  /\ spc = "merge"
  /\ combinedResults' =
       Combine(variant, AllResults(exactResults, vectorResults, textResults), originalQuery)
  /\ spc' = "filter"
  /\ UNCHANGED <<variant, query, originalQuery, sourceFilter, storeSims, embedFailed,
                 vectorError, exactError, textError, vectorResults, exactResults, textResults,
                 filteredResults, result>>

\* Filter by source.
SFilter ==
  /\ spc = "filter"
  /\ filteredResults' = FilterBySource(combinedResults, sourceFilter)
  /\ spc' = "sort"
  /\ UNCHANGED <<variant, query, originalQuery, sourceFilter, storeSims, embedFailed,
                 vectorError, exactError, textError, vectorResults, exactResults, textResults,
                 combinedResults, result>>

\* Sort, cut and return.
SReturn ==
  /\ spc = "sort"
  /\ result' = Top(SortBySimilarity(filteredResults), TopK(variant))
  /\ spc' = "done"
  /\ UNCHANGED <<variant, query, originalQuery, sourceFilter, storeSims, embedFailed,
                 vectorError, exactError, textError, vectorResults, exactResults, textResults,
                 combinedResults, filteredResults>>

\* The query of the text pass answers {data: null, error}: textResults stays [].
STextError ==
  /\ spc = "text"
  /\ Len(SelectSeq(AllKeywords(query, originalQuery), LAMBDA k : Len(k) > 3)) > 0
  /\ textError' = TRUE
  /\ textResults' = << >>
  /\ spc' = "merge"
  /\ UNCHANGED <<variant, query, originalQuery, sourceFilter, storeSims, embedFailed,
                 vectorError, exactError, vectorResults, exactResults,
                 combinedResults, filteredResults, result>>

(***************************************************************************)
(* parseFiche (fiche route)                                                *)
(***************************************************************************)
\* [A-Z]
IsCapital(c) == \E k \in 1..26 : UPPER[k] = c

\* Whether the letters a, b, c stand at offset i, in either case (flag i).
IsWordAt(s, i, a, b, c) ==
  /\ ToUpperChar(At(s, i)) = a
  /\ ToUpperChar(At(s, i + 1)) = b
  /\ ToUpperChar(At(s, i + 2)) = c

\* The length of what (PSE[XY]?|PSC[X]?|SST)? takes at offset p, X and Y the
\* circled digits; 0 when the group does not take part in the match.
LevelLength(s, p) ==
  IF IsWordAt(s, p, "P", "S", "E")
  THEN 3 + (IF At(s, p + 3) \in {"(1)", "(2)"} THEN 1 ELSE 0)
  ELSE IF IsWordAt(s, p, "P", "S", "C")
  THEN 3 + (IF At(s, p + 3) = "(1)" THEN 1 ELSE 0)
  ELSE IF IsWordAt(s, p, "S", "S", "T") THEN 3
  ELSE 0

\* The offset of the first "]" after offset i, or -1.
CloseAfter(s, i) ==
  LET closes == {j \in (i + 1)..(Len(s) - 1) : At(s, j) = "]"}
  IN  IF closes = {} THEN -1 ELSE CHOOSE j \in closes : \A k \in closes : j <= k

\* firstLine.match(/\[([^\]]+)\]\s*(PSE[XY]?|PSC[X]?|SST)?\s*(.+)?/i): the
\* leftmost "[" with at least one character before the next "]"; the groups
\* that do not take part are empty.
HeaderMatch(firstLine) ==
  LET opens == {i \in 0..(Len(firstLine) - 1) :
                  At(firstLine, i) = "[" /\ CloseAfter(firstLine, i) >= i + 2}
  IN  IF opens = {} THEN [ok |-> FALSE]
      ELSE LET i  == CHOOSE x \in opens : \A y \in opens : x <= y
               j  == CloseAfter(firstLine, i)
               p1 == j + 1 + WsRun(firstLine, j + 1)
               p2 == p1 + LevelLength(firstLine, p1)
               p3 == p2 + WsRun(firstLine, p2)
           IN  [ok |-> TRUE,
                g1 |-> Slice(firstLine, i + 1, j),
                g2 |-> Slice(firstLine, p1, p2),
                g3 |-> Slice(firstLine, p3, p3 + DotRun(firstLine, p3))]

\* \d{2}[A-Z]{2}\d{2} at offset k.
IsRefAt(s, k) ==
  /\ IsDigit(At(s, k)) /\ IsDigit(At(s, k + 1))
  /\ IsCapital(At(s, k + 2)) /\ IsCapital(At(s, k + 3))
  /\ IsDigit(At(s, k + 4)) /\ IsDigit(At(s, k + 5))

\* \d{2}-\d{4} at offset k.
IsDateAt(s, k) ==
  /\ IsDigit(At(s, k)) /\ IsDigit(At(s, k + 1))
  /\ At(s, k + 2) = "-"
  /\ \A n \in 3..6 : IsDigit(At(s, k + n))

\* refPart.match(/(\d{2}[A-Z]{2}\d{2})\s*\/?\s*(\d{2}-\d{4})?/)
RefMatch(refPart) ==
  LET starts == {k \in 0..(Len(refPart) - 1) : IsRefAt(refPart, k)}
  IN  IF starts = {} THEN [ok |-> FALSE]
      ELSE LET k  == CHOOSE x \in starts : \A y \in starts : x <= y
               q1 == k + 6 + WsRun(refPart, k + 6)
               q2 == q1 + (IF At(refPart, q1) = "/" THEN 1 ELSE 0)
               q3 == q2 + WsRun(refPart, q2)
           IN  [ok |-> TRUE,
                g1 |-> Slice(refPart, k, k + 6),
                g2 |-> IF IsDateAt(refPart, q3) THEN Slice(refPart, q3, q3 + 7) ELSE << >>]

\* title.replace(/_+/g, " ")
UnderscoreChar(s, i) ==
  IF s[i] # "_" THEN s[i] ELSE IF i > 1 /\ s[i - 1] = "_" THEN DROP ELSE " "
ReplaceUnderscores(s) == Kept([i \in 1..Len(s) |-> UnderscoreChar(s, i)])

\* title.replace(/\s+\d+\s*$/, ""): whitespace, digits and whitespace up to the
\* end of the title, from the leftmost place where that holds.
StripPageNumber(s) ==
  LET starts == {i \in 0..(Len(s) - 1) :
                   /\ WsRun(s, i) >= 1
                   /\ DigitRun(s, i + WsRun(s, i)) >= 1
                   /\ LET d == i + WsRun(s, i) + DigitRun(s, i + WsRun(s, i))
                      IN  d + WsRun(s, d) = Len(s)}
  IN  IF starts = {} THEN s
      ELSE Slice(s, 0, CHOOSE i \in starts : \A j \in starts : i <= j)

\* title.replace(/\s+/g, " ")
WsOneChar(s, i) ==
  IF ~IsWs(s[i]) THEN s[i] ELSE IF i > 1 /\ IsWs(s[i - 1]) THEN DROP ELSE " "
ReplaceWsOne(s) == Kept([i \in 1..Len(s) |-> WsOneChar(s, i)])

\* Lines 612-616.
CleanTitle(title) == Trim(ReplaceWsOne(StripPageNumber(ReplaceUnderscores(title))))

\* level.replace(/[XY]/g, (m) => m === "X" ? "1" : "2")
LevelDigits(level) ==
  [i \in 1..Len(level) |->
     IF level[i] = "(1)" THEN "1" ELSE IF level[i] = "(2)" THEN "2" ELSE level[i]]

\* ref.match(/\d{2}([A-Z]{2})\d{2}/) and the switch on its group.
UNKNOWN == <<"u", "n", "k", "n", "o", "w", "n">>
TypeOfRef(ref) ==
  LET starts == {k \in 0..(Len(ref) - 1) : IsRefAt(ref, k)}
      k      == CHOOSE x \in starts : \A y \in starts : x <= y
      code   == Slice(ref, k + 2, k + 4)
  IN  IF starts # {} /\ code \in {<<"A", "C">>, <<"F", "T">>, <<"P", "R">>}
      THEN code ELSE UNKNOWN

TypeNameOf(type) ==
  CASE type = <<"A", "C">> -> "Connaissance"
    [] type = <<"F", "T">> -> "Fiche Technique"
    [] type = <<"P", "R">> -> "Procédure"
    [] OTHER -> "Document"

\* lines.slice(1).join("\n").trim(): what follows the first line feed.
AfterFirstLine(content) ==
  Trim(Slice(content, Len(FirstLine(content)) + 1, Len(content)))

\* parseFiche(doc); doc.fiche_ref is << >> when the column is null.
parseFiche(doc) ==
  LET headerMatch == HeaderMatch(FirstLine(doc.content))
      refMatch    == IF headerMatch.ok THEN RefMatch(headerMatch.g1) ELSE [ok |-> FALSE]
      ref         == IF refMatch.ok THEN refMatch.g1 ELSE doc.fiche_ref
      title       == CleanTitle(IF headerMatch.ok THEN Trim(headerMatch.g3) ELSE << >>)
  IN  [ref      |-> ref,
       type     |-> TypeOfRef(ref),
       typeName |-> TypeNameOf(TypeOfRef(ref)),
       title    |-> IF title = << >> THEN <<"D", "o", "c", "u", "m", "e", "n", "t">> ELSE title,
       date     |-> IF refMatch.ok THEN refMatch.g2 ELSE << >>,
       level    |-> LevelDigits(IF headerMatch.ok THEN headerMatch.g2 ELSE << >>),
       content  |-> AfterFirstLine(doc.content),
       source   |-> doc.source]

\* The record importPSEDocument writes for a fiche (lines 272-284), as a row
\* that a search hands to parseFiche.
RecordOf(fiche, fileName) ==
  [content |-> fiche.content, source |-> fileName, fiche_ref |-> fiche.ficheRef]

(***************************************************************************)
(* The POST handlers of the routes: the fiche route (unnamed/part_004,     *)
(* lines 773-819), the PSE chat route (unnamed/part_006, lines 210-258)    *)
(* and the chat route (src/app/api/chat/route.ts, lines 265-317).          *)
(***************************************************************************)
\* The questions of the requests.
Questions ==
  {<<"Q", "u", "e", " ", "f", "a", "i", "r", "e", " ", "p", "l", "a", "i", "e", " ", "g", "r", "a", "v", "e", " ", "j", "a", "m", "b", "e">>,
   <<"B", "r", "u", "l", "u", "r", "e", " ", "M", "A", "I", "N">>,
   <<"m", "a", "l", " ", "m", "a", "i", "n">>,
   <<"a", "i", "e">>}

\* The text block the reformulation model answers with, when it answers: the
\* technical query of QueryPairs for the question, with whitespace around it.
ReformulationText(q) ==
  CASE q = <<"Q", "u", "e", " ", "f", "a", "i", "r", "e", " ", "p", "l", "a", "i", "e", " ", "g", "r", "a", "v", "e", " ", "j", "a", "m", "b", "e">> ->
         <<" ", "h", "e", "m", "o", "r", "r", "a", "g", "i", "e", " ", "e", "x", "t", "e", "r", "n", "e", " ", "c", "o", "m", "p", "r", "e", "s", "s", "i", "o", "n", " ", "p", "l", "a", "i", "e", "\n">>
    [] q = <<"B", "r", "u", "l", "u", "r", "e", " ", "M", "A", "I", "N">> ->
         <<"B", "r", "u", "l", "u", "r", "e", " ", "M", "A", "I", "N">>
    [] q = <<"m", "a", "l", " ", "m", "a", "i", "n">> ->
         <<"d", "o", "u", "l", "e", "u", "r", " ", "m", "a", "i", "n", " ">>
    [] q = <<"a", "i", "e">> ->
         <<"a", "i", "e">>

\* How messages.create of reformulateQuery ends: with a text block, with a
\* block of another type, or by throwing.
ReformOutcomes == {"text", "nontext", "throws"}

\* reformulateQuery with the fallback in place of the question.
ReformulateNoFallback(q, outcome) ==
  IF outcome = "text" THEN Trim(ReformulationText(q)) ELSE << >>

\* reformulateQuery(question), the call ending with outcome.
reformulateQuery(q, outcome) ==
  IF outcome = "text" THEN Trim(ReformulationText(q)) ELSE q

\* uniqueFiches with the last fiche of a reference kept.
UniqueFichesKeepLast(parsed) ==
  LET keep == {k \in 1..Len(parsed) :
                 \/ parsed[k].ref = << >>
                 \/ \A j \in (k + 1)..Len(parsed) : parsed[j].ref # parsed[k].ref}
      nth(n) == CHOOSE k \in keep : Cardinality({j \in keep : j < k}) = n - 1
  IN  [n \in 1..Cardinality(keep) |-> parsed[nth(n)]]

\* Lines 801-806: fiches.filter with seenRefs.
RECURSIVE UniqueFiches(_)
UniqueFiches(parsed) ==
  IF parsed = << >> THEN << >>
  ELSE LET front == UniqueFiches(SubSeq(parsed, 1, Len(parsed) - 1))
           last  == parsed[Len(parsed)]
       IN  IF last.ref # << >> /\ \E k \in 1..Len(front) : front[k].ref = last.ref
           THEN front ELSE Append(front, last)

\* Array.from(new Set(documents.map(d => d.source)))
SourcesOf(docs) == Unique([k \in 1..Len(docs) |-> docs[k].source])

\* Array.from(new Set(documents.map(d => d.fiche_ref).filter(Boolean)))
FicheRefsOf(docs) ==
  Unique(SelectSeq([k \in 1..Len(docs) |-> docs[k].fiche_ref],
                   LAMBDA r : r # << >>))

\* The JSON answers.  kind tells them apart: "error" ({error}, with a status),
\* "empty" ({fiches: [], message}), "fiches" ({fiches, query}) and "answer"
\* ({response, sources[, ficheRefs]}); "none" before the answer.
Response(status, kind, list, technical, sources, refs) ==
  [status |-> status, kind |-> kind, fiches |-> list, query |-> technical,
   sources |-> sources, ficheRefs |-> refs]
NoResponse == Response(0, "none", << >>, << >>, << >>, << >>)

\* What the fiche route answers for the documents of the search (lines 790-811).
FichesResponse(docs, technical) ==
  IF Len(docs) = 0
  THEN Response(200, "empty", << >>, << >>, << >>, << >>)
  ELSE Response(200, "fiches",
                UniqueFiches([k \in 1..Len(docs) |-> parseFiche(docs[k])]),
                technical, << >>, << >>)

PostStart ==
  /\ ppc = "request"
  /\ body \in {"invalid", "noquestion", "ok"}
  /\ question \in Questions
  /\ filterArg \in SourceFilters
  /\ reformOutcome = "none"
  /\ technicalQuery = << >>
  /\ documents = << >>
  /\ answerFailed = FALSE
  /\ response = NoResponse

PostIdle ==
  /\ ppc = "idle"
  /\ body = "ok"
  /\ question = << >>
  /\ filterArg = << >>
  /\ reformOutcome = "none"
  /\ technicalQuery = << >>
  /\ documents = << >>
  /\ answerFailed = FALSE
  /\ response = NoResponse

\* The search machine before POST calls searchDocuments: the route and what the
\* store would answer are fixed, nothing else is.
SearchWaiting ==
  /\ variant \in Variants
  /\ storeSims \in SimProfiles
  /\ query = << >>
  /\ originalQuery = << >>
  /\ sourceFilter = << >>
  /\ spc = "idle"
  /\ embedFailed = FALSE
  /\ vectorError = FALSE
  /\ exactError = FALSE
  /\ textError = FALSE
  /\ vectorResults = << >>
  /\ exactResults = << >>
  /\ textResults = << >>
  /\ combinedResults = << >>
  /\ filteredResults = << >>
  /\ result = << >>

\* await request.json() throws: the catch answers 500.
PBadBody ==
  /\ ppc = "request"
  /\ body = "invalid"
  /\ response' = Response(500, "error", << >>, << >>, << >>, << >>)
  /\ ppc' = "done"
  /\ UNCHANGED <<body, question, filterArg, reformOutcome, technicalQuery, documents,
                 answerFailed>>

\* !question || typeof question !== "string": 400.
PNoQuestion ==
  /\ ppc = "request"
  /\ body = "noquestion"
  /\ response' = Response(400, "error", << >>, << >>, << >>, << >>)
  /\ ppc' = "done"
  /\ UNCHANGED <<body, question, filterArg, reformOutcome, technicalQuery, documents,
                 answerFailed>>

\* const technicalQuery = await reformulateQuery(question)
PReformulate ==
  /\ ppc = "request"
  /\ body = "ok"
  /\ \E outcome \in ReformOutcomes :
       /\ reformOutcome' = outcome
       /\ technicalQuery' = reformulateQuery(question, outcome)
  /\ ppc' = "search"
  /\ UNCHANGED <<body, question, filterArg, documents, answerFailed, response>>

\* searchDocuments(technicalQuery, question, sourceFilter) is called.
PSearch ==
  /\ ppc = "search"
  /\ spc = "idle"
  /\ query' = technicalQuery
  /\ originalQuery' = question
  /\ sourceFilter' = filterArg
  /\ spc' = "embed"
  /\ ppc' = "searching"
  /\ UNCHANGED <<body, question, filterArg, reformOutcome, technicalQuery, documents,
                 answerFailed, response>>
  /\ UNCHANGED <<variant, storeSims, embedFailed, vectorError, exactError, textError,
                 vectorResults, exactResults, textResults, combinedResults,
                 filteredResults, result>>

\* searchDocuments has returned: const documents = ...
PDocuments ==
  /\ ppc = "searching"
  /\ spc = "done"
  /\ documents' = result
  /\ ppc' = "respond"
  /\ UNCHANGED <<body, question, filterArg, reformOutcome, technicalQuery,
                 answerFailed, response>>

\* The fiche route answers (lines 790-811).
PFiches ==
  /\ ppc = "respond"
  /\ variant = "fiches"
  /\ response' = FichesResponse(documents, technicalQuery)
  /\ ppc' = "done"
  /\ UNCHANGED <<body, question, filterArg, reformOutcome, technicalQuery, documents,
                 answerFailed>>

\* The chat routes ask the model for the answer and return it with the sources
\* (and, in the PSE chat route, the references).
PAnswer ==
  /\ ppc = "respond"
  /\ variant \in {"chat", "chatpse"}
  /\ response' = Response(200, "answer", << >>, << >>, SourcesOf(documents),
                          IF variant = "chatpse" THEN FicheRefsOf(documents) ELSE << >>)
  /\ ppc' = "done"
  /\ UNCHANGED <<body, question, filterArg, reformOutcome, technicalQuery, documents,
                 answerFailed>>

\* messages.create of the answer throws: the catch answers 500.
PAnswerThrows ==
  /\ ppc = "respond"
  /\ variant \in {"chat", "chatpse"}
  /\ answerFailed' = TRUE
  /\ response' = Response(500, "error", << >>, << >>, << >>, << >>)
  /\ ppc' = "done"
  /\ UNCHANGED <<body, question, filterArg, reformOutcome, technicalQuery, documents>>

(***************************************************************************)
(* searchDocuments called twice with the same arguments, the embedding     *)
(* service and the store answering the second call as they answered the    *)
(* first.  The function keeps nothing between two calls: seen, allResults  *)
(* and combinedResults are locals (part_004:735-742).                      *)
(***************************************************************************)
\* What the services answered to one call: which awaits threw or returned an error.
Outcome == [embedFailed |-> embedFailed, vectorError |-> vectorError,
            exactError |-> exactError, textError |-> textError]

NoOutcome == [embedFailed |-> FALSE, vectorError |-> FALSE,
              exactError |-> FALSE, textError |-> FALSE]

TwiceStart ==
  /\ run = 1
  /\ firstOutcome = NoOutcome
  /\ firstResult = << >>

TwiceIdle ==
  /\ run = 0
  /\ firstOutcome = NoOutcome
  /\ firstResult = << >>

\* The second call starts when the first has returned: same query, original
\* query, filter and store; every local of the function is new.
SAgain ==
  /\ run = 1
  /\ spc = "done"
  /\ run' = 2
  /\ firstOutcome' = Outcome
  /\ firstResult' = result
  /\ spc' = "embed"
  /\ embedFailed' = FALSE
  /\ vectorError' = FALSE
  /\ exactError' = FALSE
  /\ textError' = FALSE
  /\ vectorResults' = << >>
  /\ exactResults' = << >>
  /\ textResults' = << >>
  /\ combinedResults' = << >>
  /\ filteredResults' = << >>
  /\ result' = << >>
  /\ UNCHANGED <<variant, query, originalQuery, sourceFilter, storeSims>>

\* The steps of a call; in the second call a service answers as it did in the first.
TEmbed == SEmbed /\ (run = 2 => ~firstOutcome.embedFailed)

TEmbedThrows == SEmbedThrows /\ (run = 2 => firstOutcome.embedFailed)

TVector == SVector /\ (run = 2 => ~firstOutcome.vectorError)

TVectorError == SVectorError /\ (run = 2 => firstOutcome.vectorError)

TLexical == SLexical /\ (run = 2 => ~firstOutcome.exactError)

TLexicalError == SLexicalError /\ (run = 2 => firstOutcome.exactError)

TText == SText /\ (run = 2 => ~firstOutcome.textError)

TTextError == STextError /\ (run = 2 => firstOutcome.textError)

(***************************************************************************)
(* The import script (unnamed/part_001, lines 224-429): main lists the     *)
(* PDF files of the documents directory and imports them one after the     *)
(* other; a file whose name holds "pse" is split into fiches, any other    *)
(* into chunks; every item is embedded and inserted.                       *)
(***************************************************************************)
\* The whole of splitIntoPSEFiches and of splitIntoChunks, as the steps above
\* compute them.
RECURSIVE AllMatches(_, _)
AllMatches(cleaned, from) ==
  LET m == ExecFrom(cleaned, from)
  IN  IF m.ok THEN <<m>> \o AllMatches(cleaned, m.end) ELSE << >>

splitIntoPSEFiches(text) ==
  LET cleaned == CleanPSEText(text)
      matches == AllMatches(cleaned, 0)
  IN  [k \in 1..Len(matches) |-> MakeFiche(matches, k, cleaned)]

RECURSIVE ChunksFrom(_, _)
ChunksFrom(cleaned, start) ==
  IF start >= Len(cleaned) THEN << >>
  ELSE LET end   == WindowEnd(cleaned, start)
           chunk == WindowChunk(cleaned, start, end)
       IN  (IF KeepChunk(chunk) THEN <<chunk.content>> ELSE << >>)
             \o ChunksFrom(cleaned, NextStart(end))

splitIntoChunks(text) == ChunksFrom(CleanChunkText(text), 0)

\* fileName.toLowerCase().includes("pse")
isPSEDocument(fileName) == Includes(ToLowerCase(fileName), <<"p", "s", "e">>)

\* f.endsWith(".pdf")
EndsWithPdf(f) ==
  Len(f) >= 4 /\ SubSeq(f, Len(f) - 3, Len(f)) = <<".", "p", "d", "f">>

\* path.join(DOCUMENTS_DIR, f) and path.basename(filePath)
DOCUMENTS_DIR == <<"d", "o", "c", "u", "m", "e", "n", "t", "s">>

PathJoin(d, f) == d \o <<"/">> \o f

Basename(filePath) == Slice(filePath, LastIndexOf(filePath, "/", Len(filePath)) + 1, Len(filePath))

\* The delays of the loops, in ms.
SHORT_DELAY == 200
BACKOFF == 3000

\* A column the insert gives no value to.
NULL == "null"

\* The row importPSEDocument inserts for a fiche (lines 272-284).
FicheRow(fiche, fileName) ==
  [content |-> fiche.content, source |-> fileName, chapter |-> fiche.chapter,
   fiche_type |-> fiche.ficheType, fiche_ref |-> fiche.ficheRef,
   pse_level |-> fiche.pseLevel, update_date |-> fiche.updateDate]

\* The row importStandardDocument inserts for a chunk (lines 334-338).
ChunkRow(chunk, fileName) ==
  [content |-> chunk, source |-> fileName, chapter |-> NULL,
   fiche_type |-> NULL, fiche_ref |-> NULL, pse_level |-> NULL, update_date |-> NULL]

\* importDocument: the rows of a file, by its name (lines 361-369, 246, 318).
RowsOf(fileName, text) ==
  IF isPSEDocument(fileName)
  THEN LET fs == splitIntoPSEFiches(text)
       IN  [k \in 1..Len(fs) |-> FicheRow(fs[k], fileName)]
  ELSE LET cs == splitIntoChunks(text)
       IN  [k \in 1..Len(cs) |-> ChunkRow(cs[k], fileName)]

\* The items taken from the last to the first.
ItemAtReversed(items, k) == items[Len(items) - k]

\* const fiche = fiches[i], const chunk = chunks[i] (lines 265, 327)
ItemAt(items, k) == items[k + 1]

\* An insert that writes over the rows of the table.
InsertedOver(rows, row) == <<row>>

\* supabase.from("documents").insert(row): one more row, the others as they were.
Inserted(rows, row) == Append(rows, row)

\* The loop variable after a catch block: the for loop goes on with i + 1.
AfterCatchBreaks(k, n) == n

AfterCatch(k, n) == k + 1

\* The files of the model and their texts.
FilePSE1 == <<"P", "S", "E", "1", ".", "p", "d", "f">>
FilePse2 == <<"p", "s", "e", "2", ".", "p", "d", "f">>
FileGuide == <<"g", "u", "i", "d", "e", ".", "p", "d", "f">>
FileFiches == <<"f", "i", "c", "h", "e", "s", ".", "p", "d", "f">>
FileMemo == <<"m", "e", "m", "o", ".", "p", "d", "f">>
FileNotes == <<"P", "S", "E", ".", "t", "x", "t">>

FileNames == {FilePSE1, FilePse2, FileGuide, FileFiches, FileMemo, FileNotes}

\* Two fiches, with their headers.
TextFiches == SegHeaderA \o SegBodyLevel1 \o SegHeaderShort \o SegBodyLevel2

\* 560 characters without a header, of two windows.
TextPlain == Marked(CHUNK_SIZE + 60, {CHUNK_SIZE \div 2 + 50}, {10, 20, CHUNK_SIZE - 20})

\* A text shorter than the least chunk.
TextMemo == <<"A", "p", "p", "e", "l", "e", "r", " ", "l", "e", " ", "1", "5", ".">>

\* What pdf-parse reads in a file.
TextOfFile(name) ==
  CASE name = FilePSE1 -> TextFiches
    [] name = FilePse2 -> TextPlain
    [] name = FileGuide -> TextPlain
    [] name = FileFiches -> TextFiches
    [] name = FileMemo -> TextMemo
    [] OTHER -> << >>

\* The listings of the directory: names without repetition.
Listings ==
  {d \in UNION {[1..n -> FileNames] : n \in 0..MaxFiles} :
     \A j, k \in 1..Len(d) : j # k => d[j] # d[k]}

\* The optional argument of the script.
Arguments == {<< >>, <<"P", "S", "E">>}

\* Lines 400-411: the paths of the PDF files, of those whose name holds the
\* argument when there is one.
ListFiles(listing, arg) ==
  LET pdfs  == SelectSeq(listing, EndsWithPdf)
      paths == [k \in 1..Len(pdfs) |-> PathJoin(DOCUMENTS_DIR, pdfs[k])]
  IN  IF arg = << >> THEN paths
      ELSE SelectSeq(paths, LAMBDA f : Includes(ToLowerCase(Basename(f)), ToLowerCase(arg)))

ImportStart ==
  /\ ipc = "start"
  /\ idir \in Listings
  /\ iargv \in Arguments
  /\ ifiles = << >>
  /\ ifile = 0
  /\ iname = << >>
  /\ itext = << >>
  /\ iitems = << >>
  /\ iitem = 0
  /\ imported = 0
  /\ errors = 0
  /\ outcomes = << >>
  /\ delays = << >>
  /\ store = << >>
  /\ summary = << >>

ImportIdle ==
  /\ ipc = "idle"
  /\ idir = << >>
  /\ iargv = << >>
  /\ ifiles = << >>
  /\ ifile = 0
  /\ iname = << >>
  /\ itext = << >>
  /\ iitems = << >>
  /\ iitem = 0
  /\ imported = 0
  /\ errors = 0
  /\ outcomes = << >>
  /\ delays = << >>
  /\ store = << >>
  /\ summary = << >>

\* Lines 380-387: a variable of the environment is missing, process.exit(1).
IEnvMissing ==
  /\ ipc = "start"
  /\ ipc' = "exit"
  /\ UNCHANGED <<idir, iargv, ifiles, ifile, iname, itext, iitems, iitem, imported, errors,
                 outcomes, delays, store, summary>>

\* Lines 391-393: the test embedding is answered.
ITest ==
  /\ ipc = "start"
  /\ ipc' = "list"
  /\ UNCHANGED <<idir, iargv, ifiles, ifile, iname, itext, iitems, iitem, imported, errors,
                 outcomes, delays, store, summary>>

\* Lines 394-397: the test embedding throws, process.exit(1).
ITestThrows ==
  /\ ipc = "start"
  /\ ipc' = "exit"
  /\ UNCHANGED <<idir, iargv, ifiles, ifile, iname, itext, iitems, iitem, imported, errors,
                 outcomes, delays, store, summary>>

\* Lines 400-424: the files are listed; main returns when there is none.
IList ==
  /\ ipc = "list"
  /\ ifiles' = ListFiles(idir, iargv)
  /\ IF ifiles' = << >>
     THEN ipc' = "done" /\ ifile' = 0
     ELSE ipc' = "extract" /\ ifile' = 1
  /\ UNCHANGED <<idir, iargv, iname, itext, iitems, iitem, imported, errors,
                 outcomes, delays, store, summary>>

\* importDocument(file) up to the loop (lines 238-262, 310-323): the text is
\* extracted and split by the name of the file; imported and errors are new.
IExtract ==
  /\ ipc = "extract"
  /\ iname' = Basename(ifiles[ifile])
  /\ itext' = TextOfFile(iname')
  /\ iitems' = RowsOf(iname', itext')
  /\ iitem' = 0
  /\ imported' = 0
  /\ errors' = 0
  /\ outcomes' = << >>
  /\ delays' = << >>
  /\ ipc' = "loop"
  /\ UNCHANGED <<idir, iargv, ifiles, ifile, store, summary>>

\* extractTextFromPDF throws (readFileSync or pdf-parse, lines 231-232): the
\* await of line 243 or 315 is in no try block, nor is the call of
\* importDocument in main (lines 422-424); the promise of main is rejected and
\* main().catch(console.error) logs the error (line 429).
IExtractThrows ==
  /\ ipc = "extract"
  /\ ipc' = "rejected"
  /\ UNCHANGED <<idir, iargv, ifiles, ifile, iname, itext, iitems, iitem, imported, errors,
                 outcomes, delays, store, summary>>

\* Line 269 or 331: generateEmbedding answers.
IEmbed ==
  /\ ipc = "loop"
  /\ iitem < Len(iitems)
  /\ ipc' = "insert"
  /\ UNCHANGED <<idir, iargv, ifiles, ifile, iname, itext, iitems, iitem, imported, errors,
                 outcomes, delays, store, summary>>

\* generateEmbedding throws: the catch block (lines 298-302, 350-354).
IEmbedThrows ==
  /\ ipc = "loop"
  /\ iitem < Len(iitems)
  /\ errors' = errors + 1
  /\ delays' = Append(delays, BACKOFF)
  /\ outcomes' = Append(outcomes, "embedThrows")
  /\ iitem' = AfterCatch(iitem, Len(iitems))
  /\ UNCHANGED <<ipc, idir, iargv, ifiles, ifile, iname, itext, iitems, imported, store, summary>>

\* The insert answers without error (lines 272-297, 334-347).
IInsert ==
  /\ ipc = "insert"
  /\ store' = Inserted(store, ItemAt(iitems, iitem))
  /\ imported' = imported + 1
  /\ delays' = Append(delays, SHORT_DELAY)
  /\ outcomes' = Append(outcomes, "ok")
  /\ iitem' = iitem + 1
  /\ ipc' = "loop"
  /\ UNCHANGED <<idir, iargv, ifiles, ifile, iname, itext, iitems, errors, summary>>

\* The insert answers {error} (lines 286-288, 340-342): counted, then the
\* delay of line 297 or 347.
IInsertError ==
  /\ ipc = "insert"
  /\ errors' = errors + 1
  /\ delays' = Append(delays, SHORT_DELAY)
  /\ outcomes' = Append(outcomes, "insertError")
  /\ iitem' = iitem + 1
  /\ ipc' = "loop"
  /\ UNCHANGED <<idir, iargv, ifiles, ifile, iname, itext, iitems, imported, store, summary>>

\* The insert throws (the request fails): the catch block.
IInsertThrows ==
  /\ ipc = "insert"
  /\ errors' = errors + 1
  /\ delays' = Append(delays, BACKOFF)
  /\ outcomes' = Append(outcomes, "insertThrows")
  /\ iitem' = AfterCatch(iitem, Len(iitems))
  /\ ipc' = "loop"
  /\ UNCHANGED <<idir, iargv, ifiles, ifile, iname, itext, iitems, imported, store, summary>>

\* The loop is over (lines 305, 357): the counts are logged, importDocument
\* returns and main goes to the next file, or ends (lines 422-426).
IDocumentDone ==
  /\ ipc = "loop"
  /\ iitem >= Len(iitems)
  /\ summary' = Append(summary, [name |-> iname, items |-> Len(iitems),
                                 imported |-> imported, errors |-> errors])
  /\ IF ifile < Len(ifiles)
     THEN ifile' = ifile + 1 /\ ipc' = "extract"
     ELSE ifile' = ifile /\ ipc' = "done"
  /\ UNCHANGED <<idir, iargv, ifiles, iname, itext, iitems, iitem, imported, errors,
                 outcomes, delays, store>>

(***************************************************************************)
(* The specifications: one operation runs, the others are idle.            *)
(***************************************************************************)
NextFiches ==
  \/ FClean /\ UNCHANGED <<cvars, svars, pvars, tvars, ivars>>
  \/ FScan /\ UNCHANGED <<cvars, svars, pvars, tvars, ivars>>
  \/ FExtract /\ UNCHANGED <<cvars, svars, pvars, tvars, ivars>>
  \/ FReturn /\ UNCHANGED <<cvars, svars, pvars, tvars, ivars>>

InitFiches == FichesStart /\ ChunksIdle /\ SearchIdle /\ PostIdle /\ TwiceIdle /\ ImportIdle

SpecFiches == InitFiches /\ [][NextFiches]_vars

NextChunks ==
  \/ CClean /\ UNCHANGED <<fvars, svars, pvars, tvars, ivars>>
  \/ CWindow /\ UNCHANGED <<fvars, svars, pvars, tvars, ivars>>
  \/ CReturn /\ UNCHANGED <<fvars, svars, pvars, tvars, ivars>>

InitChunks == ChunksStart /\ FichesIdle /\ SearchIdle /\ PostIdle /\ TwiceIdle /\ ImportIdle

SpecChunks == InitChunks /\ [][NextChunks]_vars

\* splitIntoChunks is synchronous code: a step that can be taken is taken.  The
\* weak fairness of the cleaning step and of the turn of the loop is written
\* with their enabling conditions, the guards of CClean and of CWindow, in
\* place of ENABLED.
CleanEnabled == cpc = "clean"
WindowEnabled == cpc = "loop" /\ cstart < Len(ccleaned)

SpecChunksFair ==
  /\ InitChunks
  /\ [][NextChunks]_vars
  /\ ([]<>(~CleanEnabled) \/ []<><<CClean>>_cvars)
  /\ ([]<>(~WindowEnabled) \/ []<><<CWindow>>_cvars)
  /\ WF_cvars(CReturn)

NextSearch ==
  \/ SEmbed /\ UNCHANGED <<fvars, cvars, pvars, tvars, ivars>>
  \/ SEmbedThrows /\ UNCHANGED <<fvars, cvars, pvars, tvars, ivars>>
  \/ SVector /\ UNCHANGED <<fvars, cvars, pvars, tvars, ivars>>
  \/ SVectorError /\ UNCHANGED <<fvars, cvars, pvars, tvars, ivars>>
  \/ SLexical /\ UNCHANGED <<fvars, cvars, pvars, tvars, ivars>>
  \/ SLexicalError /\ UNCHANGED <<fvars, cvars, pvars, tvars, ivars>>
  \/ SText /\ UNCHANGED <<fvars, cvars, pvars, tvars, ivars>>
  \/ STextError /\ UNCHANGED <<fvars, cvars, pvars, tvars, ivars>>
  \/ SCombine /\ UNCHANGED <<fvars, cvars, pvars, tvars, ivars>>
  \/ SFilter /\ UNCHANGED <<fvars, cvars, pvars, tvars, ivars>>
  \/ SReturn /\ UNCHANGED <<fvars, cvars, pvars, tvars, ivars>>

InitSearch == SearchStart /\ FichesIdle /\ ChunksIdle /\ PostIdle /\ TwiceIdle /\ ImportIdle

SpecSearch == InitSearch /\ [][NextSearch]_vars

NextPost ==
  \/ PBadBody /\ UNCHANGED <<fvars, cvars, svars, tvars, ivars>>
  \/ PNoQuestion /\ UNCHANGED <<fvars, cvars, svars, tvars, ivars>>
  \/ PReformulate /\ UNCHANGED <<fvars, cvars, svars, tvars, ivars>>
  \/ PSearch /\ UNCHANGED <<fvars, cvars, tvars, ivars>>
  \/ SEmbed /\ UNCHANGED <<fvars, cvars, pvars, tvars, ivars>>
  \/ SEmbedThrows /\ UNCHANGED <<fvars, cvars, pvars, tvars, ivars>>
  \/ SVector /\ UNCHANGED <<fvars, cvars, pvars, tvars, ivars>>
  \/ SVectorError /\ UNCHANGED <<fvars, cvars, pvars, tvars, ivars>>
  \/ SLexical /\ UNCHANGED <<fvars, cvars, pvars, tvars, ivars>>
  \/ SLexicalError /\ UNCHANGED <<fvars, cvars, pvars, tvars, ivars>>
  \/ SText /\ UNCHANGED <<fvars, cvars, pvars, tvars, ivars>>
  \/ STextError /\ UNCHANGED <<fvars, cvars, pvars, tvars, ivars>>
  \/ SCombine /\ UNCHANGED <<fvars, cvars, pvars, tvars, ivars>>
  \/ SFilter /\ UNCHANGED <<fvars, cvars, pvars, tvars, ivars>>
  \/ SReturn /\ UNCHANGED <<fvars, cvars, pvars, tvars, ivars>>
  \/ PDocuments /\ UNCHANGED <<fvars, cvars, svars, tvars, ivars>>
  \/ PFiches /\ UNCHANGED <<fvars, cvars, svars, tvars, ivars>>
  \/ PAnswer /\ UNCHANGED <<fvars, cvars, svars, tvars, ivars>>
  \/ PAnswerThrows /\ UNCHANGED <<fvars, cvars, svars, tvars, ivars>>

InitPost == PostStart /\ SearchWaiting /\ FichesIdle /\ ChunksIdle /\ TwiceIdle /\ ImportIdle

SpecPost == InitPost /\ [][NextPost]_vars

NextSearchTwice ==
  \/ TEmbed /\ UNCHANGED <<fvars, cvars, pvars, tvars, ivars>>
  \/ TEmbedThrows /\ UNCHANGED <<fvars, cvars, pvars, tvars, ivars>>
  \/ TVector /\ UNCHANGED <<fvars, cvars, pvars, tvars, ivars>>
  \/ TVectorError /\ UNCHANGED <<fvars, cvars, pvars, tvars, ivars>>
  \/ TLexical /\ UNCHANGED <<fvars, cvars, pvars, tvars, ivars>>
  \/ TLexicalError /\ UNCHANGED <<fvars, cvars, pvars, tvars, ivars>>
  \/ TText /\ UNCHANGED <<fvars, cvars, pvars, tvars, ivars>>
  \/ TTextError /\ UNCHANGED <<fvars, cvars, pvars, tvars, ivars>>
  \/ SCombine /\ UNCHANGED <<fvars, cvars, pvars, tvars, ivars>>
  \/ SFilter /\ UNCHANGED <<fvars, cvars, pvars, tvars, ivars>>
  \/ SReturn /\ UNCHANGED <<fvars, cvars, pvars, tvars, ivars>>
  \/ SAgain /\ UNCHANGED <<fvars, cvars, pvars, ivars>>

InitSearchTwice == SearchStart /\ TwiceStart /\ FichesIdle /\ ChunksIdle /\ PostIdle /\ ImportIdle

SpecSearchTwice == InitSearchTwice /\ [][NextSearchTwice]_vars

NextImport ==
  \/ IEnvMissing /\ UNCHANGED <<fvars, cvars, svars, pvars, tvars>>
  \/ ITest /\ UNCHANGED <<fvars, cvars, svars, pvars, tvars>>
  \/ ITestThrows /\ UNCHANGED <<fvars, cvars, svars, pvars, tvars>>
  \/ IList /\ UNCHANGED <<fvars, cvars, svars, pvars, tvars>>
  \/ IExtract /\ UNCHANGED <<fvars, cvars, svars, pvars, tvars>>
  \/ IExtractThrows /\ UNCHANGED <<fvars, cvars, svars, pvars, tvars>>
  \/ IEmbed /\ UNCHANGED <<fvars, cvars, svars, pvars, tvars>>
  \/ IEmbedThrows /\ UNCHANGED <<fvars, cvars, svars, pvars, tvars>>
  \/ IInsert /\ UNCHANGED <<fvars, cvars, svars, pvars, tvars>>
  \/ IInsertError /\ UNCHANGED <<fvars, cvars, svars, pvars, tvars>>
  \/ IInsertThrows /\ UNCHANGED <<fvars, cvars, svars, pvars, tvars>>
  \/ IDocumentDone /\ UNCHANGED <<fvars, cvars, svars, pvars, tvars>>

InitImport == ImportStart /\ FichesIdle /\ ChunksIdle /\ SearchIdle /\ PostIdle /\ TwiceIdle

SpecImport == InitImport /\ [][NextImport]_vars

(***************************************************************************)
(* Claims about splitIntoPSEFiches.                                        *)
(***************************************************************************)
\* The offsets of the cleaned text at which a fiche header starts.
HeaderOffsets(s) == {i \in 0..(Len(s) - 1) : MatchHeaderAt(s, i).ok}

\* The k-th smallest element of a set of numbers.
KthOf(S, k) == CHOOSE h \in S : Cardinality({j \in S : j < h}) = k - 1

\* The span of the k-th fiche, cut out of the cleaned text.
SpanText(k) == Slice(fcleaned, fiches[k].startIndex, fiches[k].endIndex)
SpansConcat == Flatten([k \in 1..Len(fiches) |-> SpanText(k)])

\* C1 as stated: a text with N headers gives N fiches, in order of appearance,
\* whose spans concatenated are exactly the cleaned text.
C1_SpansCoverCleanedText ==
  fpc = "done" =>
    /\ Len(fiches) = Cardinality(HeaderOffsets(fcleaned))
    /\ \A k \in 1..Len(fiches) :
         fiches[k].startIndex = KthOf(HeaderOffsets(fcleaned), k)
    /\ SpansConcat = fcleaned

\* C1 amended: a text with N headers gives N fiches, in order of appearance;
\* their spans are contiguous (each ends where the next starts, the last at the
\* end of the text) and concatenated they are the cleaned text from the first
\* header on.  What precedes the first header is in no fiche, and a text with no
\* header gives no fiche.
C1_SpansCoverFromFirstHeader ==
  fpc = "done" =>
    LET H == HeaderOffsets(fcleaned)
        N == Len(fiches)
    IN  /\ N = Cardinality(H)
        /\ \A k \in 1..N : fiches[k].startIndex = KthOf(H, k)
        /\ \A k \in 1..(N - 1) : fiches[k].endIndex = fiches[k + 1].startIndex
        /\ \A k \in 1..N : fiches[k].startIndex < fiches[k].endIndex
        /\ N > 0 => /\ fiches[N].endIndex = Len(fcleaned)
                    /\ SpansConcat = Slice(fcleaned, KthOf(H, 1), Len(fcleaned))

\* Two fiches were cut out of a text that starts with something else than a header.
C1_Witness ==
  /\ fpc = "done"
  /\ Len(fiches) >= 2
  /\ fiches[1].startIndex > 0

SameKey(f, g) ==
  /\ f.chapter = g.chapter
  /\ f.ficheType = g.ficheType
  /\ f.ficheNumber = g.ficheNumber

\* C10 as stated: when no two headers of the text are the same, the references
\* of the fiches are pairwise distinct.
C10_DistinctHeadersDistinctRefs ==
  fpc = "done" =>
    ((\A i, j \in 1..Len(fiches) : i # j => fiches[i].fullMatch # fiches[j].fullMatch)
      => (\A i, j \in 1..Len(fiches) : i # j => fiches[i].ficheRef # fiches[j].ficheRef))

\* C10 amended: two fiches have the same reference exactly when their headers
\* have the same chapter, type and number; the references are pairwise distinct
\* when no two headers share all three, and two headers that differ only in
\* their month-year give the same reference.
C10_RefsDistinctIffKeysDistinct ==
  fpc = "done" =>
    \A i, j \in 1..Len(fiches) :
      (fiches[i].ficheRef = fiches[j].ficheRef) <=> SameKey(fiches[i], fiches[j])

\* Two headers of one text differ in their month-year only.
C10_Witness ==
  /\ fpc = "done"
  /\ \E i, j \in 1..Len(fiches) :
       /\ i # j
       /\ SameKey(fiches[i], fiches[j])
       /\ fiches[i].updateDate # fiches[j].updateDate
  /\ \E i, j \in 1..Len(fiches) : ~SameKey(fiches[i], fiches[j])

\* The number of the level that parseFiche returns as a string ("PSE1", "PSE2").
LevelNumber(level) ==
  IF "1" \in Range(level) THEN 1 ELSE IF "2" \in Range(level) THEN 2 ELSE NO_LEVEL

\* C17: parseFiche applied to the record written for a fiche gives back the
\* reference, the type, the update date and the level that splitIntoPSEFiches
\* gave the fiche.
C17_ParseFicheRecoversMetadata ==
  fpc = "done" =>
    \A k \in 1..Len(fiches) :
      LET parsed == parseFiche(RecordOf(fiches[k], SourcePSE))
      IN  /\ parsed.ref = fiches[k].ficheRef
          /\ parsed.type = fiches[k].ficheType
          /\ parsed.date = fiches[k].updateDate
          /\ LevelNumber(parsed.level) = fiches[k].pseLevel

\* C19: every reference is 6 characters: 2 digits, AC, PR or FT, 2 digits.
C19_ReferenceFixedWidth ==
  fpc = "done" =>
    \A k \in 1..Len(fiches) :
      LET ref == fiches[k].ficheRef
      IN  /\ Len(ref) = 6
          /\ \A n \in {0, 1, 4, 5} : IsDigit(At(ref, n))
          /\ Slice(ref, 2, 4) \in {<<"A", "C">>, <<"P", "R">>, <<"F", "T">>}

(***************************************************************************)
(* Claims about splitIntoChunks.                                           *)
(***************************************************************************)
\* C8: every chunk returned by splitIntoChunks has at most CHUNK_SIZE characters.
C8_ChunkLengthBound ==
  \A k \in 1..Len(chunks) : Len(chunks[k].content) <= CHUNK_SIZE

\* The overlap of the k-th chunk and the next one: how far the start of the next
\* lies before the end of the k-th, in the cleaned text.
ChunkOverlap(k) == chunks[k].to - chunks[k + 1].from

\* C9 as stated: for every chunk but the last, the next chunk starts exactly
\* CHUNK_OVERLAP characters before the end of the chunk.
C9_ChunkOverlapExact ==
  \A k \in 1..(Len(chunks) - 1) : ChunkOverlap(k) = CHUNK_OVERLAP

\* C9 amended: the start of every window but the first is the end computed for
\* the window before it (start + CHUNK_SIZE or the break point + 1, which may lie
\* past the end of the text) minus CHUNK_OVERLAP.  The k-th chunk is the trimmed
\* k-th window, so two successive chunks overlap by at most CHUNK_OVERLAP
\* characters, and by at least CHUNK_OVERLAP - 2 when the computed end of the
\* first lies within the text.
C9_WindowOverlapExact ==
  /\ Len(chunks) <= Len(cwindows)
  /\ \A k \in 1..(Len(cwindows) - 1) :
       cwindows[k + 1].start = cwindows[k].end - CHUNK_OVERLAP
  /\ \A k \in 1..Len(chunks) :
       /\ chunks[k].from - cwindows[k].start \in {0, 1}
       /\ Min2(cwindows[k].end, Len(ccleaned)) - chunks[k].to \in {0, 1}
  /\ \A k \in 1..(Len(chunks) - 1) :
       /\ ChunkOverlap(k) <= CHUNK_OVERLAP
       /\ cwindows[k].end <= Len(ccleaned) => ChunkOverlap(k) >= CHUNK_OVERLAP - 2

\* Three chunks were returned, the first two ending within the text.
C9_Witness ==
  /\ cpc = "done"
  /\ Len(chunks) >= 3
  /\ cwindows[2].end <= Len(ccleaned)

(***************************************************************************)
(* Claims about searchDocuments.                                           *)
(***************************************************************************)
\* Whether a pass gave a row for the id, and the similarity it gave.
InPass(rows, id) == \E k \in 1..Len(rows) : rows[k].id = id
ScoreIn(rows, id) == rows[CHOOSE k \in 1..Len(rows) : rows[k].id = id].similarity
\* The ids and similarities of rows, in order.
Pairs(rows) == [k \in 1..Len(rows) |-> <<rows[k].id, rows[k].similarity>>]

\* The id came from the lexical pass and from the vector pass, with two scores.
InBothPasses(id) ==
  /\ InPass(exactResults, id)
  /\ InPass(vectorResults, id)
  /\ ScoreIn(exactResults, id) # ScoreIn(vectorResults, id)

\* No word of more than 4 characters of the original query is in the title.
OffTopic(content) ==
  \A w \in Range(SplitWs(ToLowerCase(originalQuery))) :
    Len(w) > 4 => ~Includes(extractDocumentTitle(content), w)

\* C2, as stated: a record the lexical pass and the vector pass both return,
\* with different scores, is in the result with the score of the lexical pass.
C2_LexicalScoreInResult ==
  spc = "done" =>
    \A k \in 1..Len(result) :
      InBothPasses(result[k].id) =>
        result[k].similarity = ScoreIn(exactResults, result[k].id)

\* C2, amended: such a record is in the result with the score of the lexical
\* pass, or with 0.4 times that score where the route checks relevance, the
\* title is off the topic and the lexical score is under 0.9; the score of the
\* vector pass plays no part.  Lexical 7 @0.85 with vector 9 @0.60, 7 @0.30
\* gives [7 @0.85, 9 @0.60].
C2_LexicalScoreUpToPenalty ==
  spc = "done" =>
    /\ \A k \in 1..Len(result) :
         InBothPasses(result[k].id) =>
           LET lexical == ScoreIn(exactResults, result[k].id)
           IN  IF /\ variant \in {"fiches", "chatpse"}
                  /\ OffTopic(result[k].content)
                  /\ 10 * lexical < 9 * SIM_UNIT
               THEN 5 * result[k].similarity = 2 * lexical
               ELSE result[k].similarity = lexical
    /\ ( /\ Pairs(exactResults) = << <<7, Milli(850)>> >>
         /\ Pairs(vectorResults) = << <<9, Milli(600)>>, <<7, Milli(300)>> >>
         /\ \A k \in 1..Len(textResults) : textResults[k].id \in {7, 9} )
       => Pairs(result) = << <<7, Milli(850)>>, <<9, Milli(600)>> >>

\* The scenario of C2 has run to its end.
C2_Witness ==
  /\ spc = "done"
  /\ Pairs(exactResults) = << <<7, Milli(850)>> >>
  /\ Pairs(vectorResults) = << <<9, Milli(600)>>, <<7, Milli(300)>> >>
  /\ Pairs(result) = << <<7, Milli(850)>>, <<9, Milli(600)>> >>

\* What the search returns from the lexical passes alone.
LexicalOnly ==
  Top(SortBySimilarity(
        FilterBySource(
          Combine(variant,
                  AllResults(LexicalPass(variant, originalQuery, sourceFilter), << >>,
                             IF variant = "chat"
                             THEN TextPass(query, originalQuery, sourceFilter) ELSE << >>),
                  originalQuery),
          sourceFilter)),
      TopK(variant))

\* C3: when the vector pass fails, by the embedding call or by the call of the
\* store, the search returns the results of the lexical pass alone.
C3_VectorFailureKeepsLexical ==
  (spc = "done" /\ (embedFailed \/ vectorError) /\ ~exactError /\ ~textError)
    => result = LexicalOnly

\* The half of C3 about the call of the store: when match_documents answers with
\* an error, the search returns the results of the lexical pass alone.
StoreFailureKeepsLexical ==
  (spc = "done" /\ vectorError /\ ~exactError /\ ~textError) => result = LexicalOnly

\* C4: the result holds every id at most once, and the row of an id is the one
\* of the first pass that gave it, in the order lexical, vector, text, with the
\* score of that pass behind it.
C4_FirstOccurrenceKept ==
  spc = "done" =>
    /\ \A j, k \in 1..Len(result) : j # k => result[j].id # result[k].id
    /\ \A k \in 1..Len(result) :
         LET id == result[k].id
         IN  IF InPass(exactResults, id)
             THEN result[k].pass = "lexical" /\ result[k].raw = ScoreIn(exactResults, id)
             ELSE IF InPass(vectorResults, id)
             THEN result[k].pass = "vector" /\ result[k].raw = ScoreIn(vectorResults, id)
             ELSE result[k].pass = "text" /\ result[k].raw = ScoreIn(textResults, id)

\* A returned row of the lexical pass whose id the vector pass scored higher.
C4_Witness ==
  /\ spc = "done"
  /\ \E k \in 1..Len(result) :
       /\ InPass(exactResults, result[k].id)
       /\ InPass(vectorResults, result[k].id)
       /\ ScoreIn(vectorResults, result[k].id) > ScoreIn(exactResults, result[k].id)
       /\ result[k].pass = "lexical"

\* C5: the result is K rows at most (5, 6, 8), as many as the filtered set has
\* up to K, rows of the filtered set, by decreasing similarity, and no row left
\* out has a similarity above one returned.
C5_TopKByDescendingSimilarity ==
  spc = "done" =>
    LET K == CASE variant = "fiches" -> 5 [] variant = "chatpse" -> 6 [] variant = "chat" -> 8
    IN  /\ Len(result) = Min2(K, Len(filteredResults))
        /\ \A k \in 1..Len(result) : \E j \in 1..Len(filteredResults) : filteredResults[j] = result[k]
        /\ \A j, k \in 1..Len(result) : j # k => result[j].id # result[k].id
        /\ \A j, k \in 1..Len(result) : j < k => result[j].similarity >= result[k].similarity
        /\ \A j \in 1..Len(filteredResults) :
             ~InPass(result, filteredResults[j].id) =>
               \A k \in 1..Len(result) : filteredResults[j].similarity <= result[k].similarity

\* More than K filtered rows, out of order, of which K are returned.
C5_Witness ==
  /\ spc = "done"
  /\ Len(filteredResults) > Len(result)
  /\ Len(result) = 8
  /\ \E j, k \in 1..Len(filteredResults) :
       j < k /\ filteredResults[j].similarity < filteredResults[k].similarity

\* The source holds the filter, the case of the letters apart.
ContainsNoCase(source, filter) == Includes(ToLowerCase(source), ToLowerCase(filter))

\* C6: with a filter, the rows kept are the rows whose source holds the filter,
\* the case of the letters apart, and every returned row is one of them; with no
\* filter the step drops nothing.
C6_SourceFilter ==
  /\ (spc \in {"sort", "done"} /\ ~embedFailed) =>
       IF sourceFilter = << >>
       THEN filteredResults = combinedResults
       ELSE filteredResults =
              SelectSeq(combinedResults, LAMBDA d : ContainsNoCase(d.source, sourceFilter))
  /\ (spc = "done" /\ sourceFilter # << >>) =>
       \A k \in 1..Len(result) : ContainsNoCase(result[k].source, sourceFilter)

\* The filter "sst" in lower case: a row of "Guide_SST.pdf" that the vector pass
\* gave is returned, and a row of "Referentiel_PSC1.pdf" was dropped.
C6_Witness ==
  /\ spc = "done"
  /\ sourceFilter = <<"s", "s", "t">>
  /\ \E k \in 1..Len(result) : result[k].source = SourceSST /\ result[k].pass = "vector"
  /\ \E k \in 1..Len(combinedResults) : combinedResults[k].source = SourcePSC

\* The scenario of C6: under the filter "PSC" a row of "Referentiel_PSC1.pdf" is
\* returned and a row of "Guide_SST.pdf" was dropped.
ScenarioPSC ==
  /\ spc = "done"
  /\ sourceFilter = <<"P", "S", "C">>
  /\ \E k \in 1..Len(result) : result[k].source = SourcePSC
  /\ \E k \in 1..Len(combinedResults) : combinedResults[k].source = SourceSST
  /\ \A k \in 1..Len(result) : result[k].source # SourceSST

\* C7: in the routes that check relevance (the fiche route and the PSE chat
\* route), a returned row whose title holds none of the words of more than 4
\* characters of the original query and whose pass gave it 0.5 has a similarity
\* of 0.5 * 0.4 at most, under what the pass gave.
C7_OffTopicPenalized ==
  (spc = "done" /\ variant \in {"fiches", "chatpse"}) =>
    \A k \in 1..Len(result) :
      (OffTopic(result[k].content) /\ 2 * result[k].raw = SIM_UNIT) =>
        /\ 5 * result[k].similarity <= SIM_UNIT
        /\ result[k].similarity < result[k].raw

\* A row off the topic that its pass gave 0.5 is returned with 0.2.
C7_Witness ==
  /\ spc = "done"
  /\ variant \in {"fiches", "chatpse"}
  /\ \E k \in 1..Len(result) :
       /\ OffTopic(result[k].content)
       /\ 2 * result[k].raw = SIM_UNIT
       /\ 5 * result[k].similarity = SIM_UNIT

\* The chat route has no relevance check: there a row off the topic that its pass
\* gave 0.5 is returned with 0.5.
ChatRouteKeepsRawSimilarity ==
  /\ spc = "done"
  /\ variant = "chat"
  /\ \E k \in 1..Len(result) :
       /\ OffTopic(result[k].content)
       /\ 2 * result[k].raw = SIM_UNIT
       /\ result[k].similarity = result[k].raw

(***************************************************************************)
(* Claims about the POST handlers.                                         *)
(***************************************************************************)
\* C15: when the reformulation call throws or answers with a block that is not
\* text, the technical query is the question itself, searchDocuments is called
\* with the question as both queries, and the request is answered with status
\* 200 unless the later call for the answer fails.
C15_ReformulationFallsBack ==
  (ppc \notin {"idle", "request"} /\ reformOutcome \in {"nontext", "throws"}) =>
    /\ technicalQuery = question
    /\ ppc \notin {"search"} => (query = question /\ originalQuery = question)
    /\ ppc = "done" => (response.status = 200 \/ answerFailed)
    /\ (ppc = "done" /\ response.kind = "fiches") => response.query = question

\* The reformulation threw, the search ran on the question and fiches are returned.
C15_Witness ==
  /\ ppc = "done"
  /\ reformOutcome = "throws"
  /\ query = question
  /\ response.status = 200
  /\ response.kind = "fiches"
  /\ Len(response.fiches) > 0

\* The fiches parsed from the documents of the search, in their order.
ParsedDocuments == [k \in 1..Len(documents) |-> parseFiche(documents[k])]

\* C16: the fiches returned hold every non-empty reference once, and they are
\* the parsed documents, in the order of the search, without those whose
\* non-empty reference an earlier document has.
C16_UniqueByReference ==
  (ppc = "done" /\ response.kind = "fiches") =>
    LET first == {k \in 1..Len(documents) :
                    \/ ParsedDocuments[k].ref = << >>
                    \/ \A j \in 1..(k - 1) : ParsedDocuments[j].ref # ParsedDocuments[k].ref}
        nth(n) == CHOOSE k \in first : Cardinality({j \in first : j < k}) = n - 1
    IN  /\ \A i, j \in 1..Len(response.fiches) :
             (i # j /\ response.fiches[i].ref # << >>)
               => response.fiches[i].ref # response.fiches[j].ref
        /\ Len(response.fiches) = Cardinality(first)
        /\ \A n \in 1..Len(response.fiches) : response.fiches[n] = ParsedDocuments[nth(n)]

\* Two documents of the search with one reference and different dates, and one
\* with no reference: the later of the two is dropped.
C16_Witness ==
  /\ ppc = "done"
  /\ response.kind = "fiches"
  /\ Len(response.fiches) < Len(documents)
  /\ \E j, k \in 1..Len(documents) :
       /\ j < k
       /\ ParsedDocuments[j].ref = ParsedDocuments[k].ref
       /\ ParsedDocuments[j].ref # << >>
       /\ ParsedDocuments[j].date # ParsedDocuments[k].date
  /\ \E k \in 1..Len(response.fiches) : response.fiches[k].ref = << >>

\* The answer {fiches: [], message} with status 200.
EmptyWithMessage == response.status = 200 /\ response.kind = "empty"

\* C18: in the fiche route, a search that ends with no document makes the
\* handler answer {fiches: [], message} with status 200, and that answer is
\* given only when the search ran to its end with no pass failing.
C18_EmptyOnlyForNoMatch ==
  (ppc = "done" /\ variant = "fiches" /\ body = "ok") =>
    /\ (documents = << >>) => EmptyWithMessage
    /\ EmptyWithMessage => (~embedFailed /\ ~vectorError /\ ~exactError)

\* The half of C18 that holds: no document, whatever the reason, is answered
\* with {fiches: [], message} and status 200, and documents are never answered so.
EmptyIffNoDocument ==
  (ppc = "done" /\ variant = "fiches" /\ body = "ok") =>
    (EmptyWithMessage <=> documents = << >>)

\* The embedding call threw although the lexical pass alone has rows for the
\* question, and the handler answers {fiches: [], message}.
EmptyAfterEmbeddingFailure ==
  /\ ppc = "done"
  /\ variant = "fiches"
  /\ embedFailed
  /\ EmptyWithMessage
  /\ LexicalPass(variant, originalQuery, sourceFilter) # << >>

HasHeader == ExecFrom(CleanPSEText(itext), 0).ok

\* The file being imported has been split.
Split == ipc \in {"loop", "insert"}

\* C11: a file whose text holds a fiche header is split into its fiches and
\* never into chunks; a file whose text holds none is split into chunks, and
\* a text that is not empty gives at least one row.
C11_ModeFromHeaders ==
  Split =>
    /\ HasHeader =>
         LET fs == splitIntoPSEFiches(itext)
         IN  iitems = [k \in 1..Len(fs) |-> FicheRow(fs[k], iname)]
    /\ ~HasHeader =>
         LET cs == splitIntoChunks(itext)
         IN  /\ iitems = [k \in 1..Len(cs) |-> ChunkRow(cs[k], iname)]
             /\ itext # << >> => iitems # << >>

\* What the script does: the name of the file decides.
ModeFromName ==
  Split =>
    /\ (isPSEDocument(iname) /\ ~HasHeader) => iitems = << >>
    /\ (~isPSEDocument(iname) /\ HasHeader) =>
         \A k \in 1..Len(iitems) : iitems[k].fiche_ref = NULL

\* A file named after PSE whose text holds no header: no row at all.
PSENameWithoutHeader ==
  /\ ipc = "done"
  /\ isPSEDocument(iname)
  /\ ~HasHeader
  /\ Len(itext) > CHUNK_SIZE
  /\ summary[Len(summary)].items = 0

\* A file with headers under another name: one chunk holds both fiches.
HeadersUnderOtherName ==
  /\ ipc = "done"
  /\ ~isPSEDocument(iname)
  /\ Len(splitIntoPSEFiches(itext)) = 2
  /\ Len(store) = 1
  /\ store[1].fiche_ref = NULL

\* The number of items of the current file with outcome o.
CountOutcome(o) == Cardinality({k \in 1..Len(outcomes) : outcomes[k] = o})

\* C12: in the loops of importPSEDocument and importStandardDocument every
\* item is attempted once and counted once, as imported or as an error, a
\* failure of the embedding or of the insert does not end the loop, and when
\* the loop ends imported + errors is the number of items.
C12_EveryItemCounted ==
  /\ Split =>
       /\ iitem <= Len(iitems)
       /\ Len(outcomes) = iitem
       /\ imported + errors = iitem
       /\ imported = CountOutcome("ok")
  /\ \A k \in 1..Len(summary) :
       summary[k].imported + summary[k].errors = summary[k].items

\* A file of fiches and a file of chunks, each with an item that failed before
\* an item that was imported.
C12_Witness ==
  /\ ipc = "done"
  /\ Len(summary) = 2
  /\ isPSEDocument(summary[1].name)
  /\ ~isPSEDocument(summary[2].name)
  /\ \A k \in 1..2 : summary[k].items = 2 /\ summary[k].imported = 1 /\ summary[k].errors = 1
  /\ outcomes = <<"embedThrows", "ok">>
  /\ Len(store) = 2

\* C13: a call that fails while a file is imported (text extraction,
\* embedding, insert) never keeps the run from importing the files that
\* follow: when main ends, every listed file has been through its loop.
C13_FailureNeverStopsTheRun ==
  (ipc \in {"done", "rejected"}) => Len(summary) = Len(ifiles)

\* The part of C13 that holds: the failures of the embedding and of the
\* insert stay in the loop, and a run that is not rejected imports every file.
ItemFailuresStayInLoop ==
  /\ ipc = "done" => Len(summary) = Len(ifiles)
  /\ ipc = "rejected" => (Len(summary) = ifile - 1 /\ ifile <= Len(ifiles))

\* The first of two files cannot be read: the second is never imported.
RejectedBeforeSecondFile ==
  /\ ipc = "rejected"
  /\ ifile = 1
  /\ Len(ifiles) = 2
  /\ summary = << >>
  /\ store = << >>

\* C20: in the loops, the wait after an item is 200 ms when its embedding and
\* its insert succeeded, and 3000 ms after every item that failed, in the
\* embedding or in the insert.
C20_DelayByOutcome ==
  /\ Len(delays) = Len(outcomes)
  /\ \A k \in 1..Len(outcomes) :
       delays[k] = IF outcomes[k] = "ok" THEN SHORT_DELAY ELSE BACKOFF

\* What the script does: 3000 ms after a call that threw, 200 ms after an
\* insert that answered, with an error or without.
DelayByThrow ==
  /\ Len(delays) = Len(outcomes)
  /\ \A k \in 1..Len(outcomes) :
       delays[k] = IF outcomes[k] \in {"embedThrows", "insertThrows"} THEN BACKOFF
                   ELSE SHORT_DELAY

\* An insert answered {error}: counted as an error, followed by 200 ms.
ShortDelayAfterInsertError ==
  /\ ipc = "done"
  /\ outcomes = <<"insertError", "ok">>
  /\ delays = <<SHORT_DELAY, SHORT_DELAY>>
  /\ errors = 1

\* The external request main is waiting for: the test embedding, the
\* extraction of a file, the embedding or the insert of an item.
InFlight ==
  CASE ipc = "start" -> {<<"embedding", 0, 0>>}
    [] ipc = "extract" -> {<<"extraction", ifile, 0>>}
    [] ipc = "loop" /\ iitem < Len(iitems) -> {<<"embedding", ifile, iitem>>}
    [] ipc = "insert" -> {<<"insert", ifile, iitem>>}
    [] OTHER -> {}

\* The rows of the listed files up to file d, in the order of the files and,
\* in a file, in the order the splitter gave them.
RECURSIVE RowsUpTo(_)
RowsUpTo(d) ==
  IF d = 0 THEN << >>
  ELSE RowsUpTo(d - 1) \o RowsOf(Basename(ifiles[d]), TextOfFile(Basename(ifiles[d])))

\* The file and the text of a row: no two items of a run share both.
RowKey(row) == <<row.source, row.content>>

KeysOf(rows) == [k \in 1..Len(rows) |-> RowKey(rows[k])]

\* rows is made of elements of all, in the order they have in all.
RECURSIVE InOrderOf(_, _)
InOrderOf(rows, all) ==
  IF rows = << >> THEN TRUE
  ELSE IF all = << >> THEN FALSE
  ELSE IF Head(rows) = Head(all) THEN InOrderOf(Tail(rows), Tail(all))
  ELSE InOrderOf(rows, Tail(all))

\* C21: the import is sequential: main waits for at most one request at a
\* time, the rows are written in the order of the files and, in a file, in
\* the order of its items, and while a file is imported every file before it
\* has been through all its items and no file after it has been touched.
C21_SequentialImport ==
  /\ Cardinality(InFlight) <= 1
  /\ InOrderOf(KeysOf(store), KeysOf(RowsUpTo(ifile)))
  /\ Split =>
       /\ Len(summary) = ifile - 1
       /\ \A k \in 1..Len(outcomes) :
            outcomes[k] = "ok" <=> \E j \in 1..Len(store) : RowKey(store[j]) = RowKey(iitems[k])
  /\ \A k \in 1..Len(summary) :
       /\ summary[k].name = Basename(ifiles[k])
       /\ summary[k].imported + summary[k].errors = summary[k].items

\* Two files of two items each, all four rows written, the insert of the
\* last one in flight before.
C21_Witness ==
  /\ ipc = "done"
  /\ Len(ifiles) = 2
  /\ Len(store) = 4
  /\ store[1].source = store[2].source
  /\ store[3].source = store[4].source
  /\ store[1].source # store[3].source
  /\ store[1].content # store[2].content

\* No row of the store is written twice.
NoRowTwice == \A j, k \in 1..Len(store) : j # k => RowKey(store[j]) # RowKey(store[k])

OneAttemptPerItem ==
  Split =>
    /\ Len(outcomes) = iitem
    /\ Cardinality({j \in 1..Len(store) : store[j].source = iname}) = imported

RawSpan(k) == Trim(SpanText(k))
LevelWindowOf(k) == Slice(RawSpan(k), 0, LEVEL_WINDOW)

\* w holds PSE, in any case, followed by one of digits, with nothing but
\* whitespace between the two.
MarkerIn(w, digits) ==
  \E i \in 0..(Len(w) - 1) : \E j \in (i + 3)..(Len(w) - 1) :
    /\ ToUpperCase(Slice(w, i, i + 3)) = <<"P", "S", "E">>
    /\ \A m \in (i + 3)..(j - 1) : IsWs(At(w, m))
    /\ At(w, j) \in digits

Level1In(w) == MarkerIn(w, {"(1)", "1"})
Level2In(w) == MarkerIn(w, {"(2)", "2"})

\* The fiche of the scenario: "[05PR08 / 12-2022] PSE(1) ...".
ScenarioFiche(k) ==
  fiches[k].fullMatch = SegHeaderA =>
    /\ fiches[k].ficheRef = <<"0", "5", "P", "R", "0", "8">>
    /\ fiches[k].chapter = <<"0", "5">>
    /\ fiches[k].ficheType = <<"P", "R">>
    /\ fiches[k].ficheTypeName = FICHE_TYPES["PR"]
    /\ fiches[k].updateDate = <<"1", "2", "-", "2", "0", "2", "2">>
    /\ Slice(RawSpan(k), 0, Len(SegHeaderA) + 5) = SegHeaderA \o <<" ", "P", "S", "E", "(1)">>
         => fiches[k].pseLevel = 1

\* C22 as stated: the level of a fiche is 1 when a level-1 marker is in the first
\* 200 characters of its span, 2 when a level-2 marker is there, unset when
\* neither is; the header of the scenario gives 05PR08, 05, PR, 12-2022, level 1.
C22_LevelByMarker ==
  fpc = "done" =>
    \A k \in 1..Len(fiches) :
      /\ Level1In(LevelWindowOf(k)) => fiches[k].pseLevel = 1
      /\ Level2In(LevelWindowOf(k)) => fiches[k].pseLevel = 2
      /\ (~Level1In(LevelWindowOf(k)) /\ ~Level2In(LevelWindowOf(k)))
           => fiches[k].pseLevel = NO_LEVEL
      /\ ScenarioFiche(k)

\* C22 amended: the level is 1 when a level-1 marker is in the first 200
\* characters of the trimmed span (the header included), wherever a level-2
\* marker is; 2 when a level-2 marker is there and no level-1 marker; unset when
\* neither is there, whatever follows the 200 characters.
C22_LevelOneFirst ==
  fpc = "done" =>
    \A k \in 1..Len(fiches) :
      /\ Level1In(LevelWindowOf(k)) => fiches[k].pseLevel = 1
      /\ (Level2In(LevelWindowOf(k)) /\ ~Level1In(LevelWindowOf(k)))
           => fiches[k].pseLevel = 2
      /\ (~Level1In(LevelWindowOf(k)) /\ ~Level2In(LevelWindowOf(k)))
           => fiches[k].pseLevel = NO_LEVEL
      /\ ScenarioFiche(k)

\* The fiche of the scenario header with a level-2 marker followed by a
\* level-1 marker: level 1.
C22_Witness ==
  /\ fpc = "done"
  /\ \E k \in 1..Len(fiches) :
       /\ fiches[k].fullMatch = SegHeaderA
       /\ Level1In(LevelWindowOf(k))
       /\ Level2In(LevelWindowOf(k))
       /\ fiches[k].pseLevel = 1

\* A marker whose digit is the 201st character of the fiche: no level.
MarkerPastWindow ==
  /\ fpc = "done"
  /\ \E k \in 1..Len(fiches) :
       /\ Level1In(RawSpan(k))
       /\ ~Level1In(LevelWindowOf(k))
       /\ At(RawSpan(k), LEVEL_WINDOW) = "(1)"
       /\ fiches[k].pseLevel = NO_LEVEL

\* The number of characters equal to s[i] right before it, and right after it.
RECURSIVE SameBefore(_, _)
SameBefore(s, i) == IF i > 1 /\ s[i - 1] = s[i] THEN 1 + SameBefore(s, i - 1) ELSE 0

RECURSIVE SameAfter(_, _)
SameAfter(s, i) == IF i < Len(s) /\ s[i + 1] = s[i] THEN 1 + SameAfter(s, i + 1) ELSE 0

\* s with every run of 3 or more spaces cut to 2 spaces and every run of 3 or
\* more newlines cut to 2 newlines, the rest as it is.
CollapseRuns(s) ==
  SelectSeq([i \in 1..Len(s) |->
               IF /\ s[i] \in {" ", "\n"}
                  /\ SameBefore(s, i) + 1 + SameAfter(s, i) >= 3
                  /\ SameBefore(s, i) >= 2
               THEN DROP ELSE s[i]],
            LAMBDA c : c # DROP)

\* C23: the content of a fiche is its trimmed span with every run of 3 or more
\* spaces cut to 2 spaces and every run of 3 or more newlines cut to 2
\* newlines, shorter runs and the other characters unchanged.
C23_RunsCollapsedInKind ==
  fpc = "done" =>
    \A k \in 1..Len(fiches) : fiches[k].content = CollapseRuns(RawSpan(k))

\* What the normalization does: every run of 3 or more whitespace characters,
\* newlines included, becomes 2 spaces; the other characters are unchanged.
WhitespaceRunsToTwoSpaces ==
  fpc = "done" =>
    \A k \in 1..Len(fiches) :
      LET c == fiches[k].content
      IN  /\ \A i \in 1..(Len(c) - 2) : ~(IsWs(c[i]) /\ IsWs(c[i + 1]) /\ IsWs(c[i + 2]))
          /\ SelectSeq(c, LAMBDA x : ~IsWs(x)) = SelectSeq(RawSpan(k), LAMBDA x : ~IsWs(x))

\* A span with 3 newlines in a row: the content has 2 spaces in their place.
NewlinesBecomeSpaces ==
  /\ fpc = "done"
  /\ \E k \in 1..Len(fiches) :
       /\ \E i \in 0..Len(RawSpan(k)) :
            Slice(RawSpan(k), i, i + 5) = <<"x", "\n", "\n", "\n", "y">>
       /\ \E i \in 0..Len(fiches[k].content) :
            Slice(fiches[k].content, i, i + 4) = <<"x", " ", " ", "y">>
       /\ "\n" \notin Range(Slice(fiches[k].content, Len(fiches[k].fullMatch), Len(fiches[k].content)))

\* The k-th header is followed at once by the next one.
NextHeaderFollows(k) ==
  /\ k < Len(fiches)
  /\ fiches[k + 1].startIndex = fiches[k].startIndex + Len(fiches[k].fullMatch)

\* C24 as stated: a header followed at once by another header gives a fiche of
\* empty content, kept in the output, and an empty text gives no fiche.
C24_EmptyFicheKept ==
  fpc = "done" =>
    /\ Len(fiches) = Cardinality(HeaderOffsets(fcleaned))
    /\ \A k \in 1..Len(fiches) : NextHeaderFollows(k) => fiches[k].content = << >>
    /\ ftext = << >> => fiches = << >>

\* C24 amended: a header followed at once by another header gives a fiche that
\* is kept in the output and whose content is the header marker itself, never
\* the empty string; an empty text gives no fiche.
C24_HeaderOnlyFicheKept ==
  fpc = "done" =>
    /\ Len(fiches) = Cardinality(HeaderOffsets(fcleaned))
    /\ \A k \in 1..Len(fiches) :
         /\ NextHeaderFollows(k) => fiches[k].content = fiches[k].fullMatch
         /\ fiches[k].content # << >>
    /\ ftext = << >> => fiches = << >>

\* Two headers in a row, then a body: two fiches, the first one is its header.
C24_Witness ==
  /\ fpc = "done"
  /\ Len(fiches) = 2
  /\ NextHeaderFollows(1)
  /\ fiches[1].content = fiches[1].fullMatch
  /\ Len(fiches[2].content) > Len(fiches[2].fullMatch)

\* The empty text has been split.
EmptyTextNoFiche == fpc = "done" /\ ftext = << >> /\ fiches = << >>

(***************************************************************************)
(* Claims about the lexical pass and the relevance check of                *)
(* searchDocuments.                                                        *)
(***************************************************************************)
\* The significant words of the original query: more than 3 characters, no
\* stop word of the route.
SignificantWords ==
  SelectSeq(SplitWs(ToLowerCase(originalQuery)),
            LAMBDA w : Len(w) > 3 /\ w \notin Range(StopWords(variant)))

\* The rows of the table that hold every significant word, under the filter.
HoldAllSignificant ==
  {d \in Range(Docs) :
     /\ \A k \in 1..Len(SignificantWords) : ILike(d.content, SignificantWords[k])
     /\ sourceFilter # << >> => ILike(d.source, sourceFilter)}

\* The number of significant words in the content of a row.
Matched(row) == MatchCountOf(row.content, SignificantWords)

\* C25: the lexical pass runs whenever the original query has a significant
\* word, so that a row holding all of them is one of its hits; the similarity
\* of a hit is a base plus a bonus that grows with the fraction of the key
\* words in its content: hits with the same number of matched words have the
\* same similarity, more matched words never give less, and no similarity
\* reaches 1.
C25_LexicalScoreByFraction ==
  (spc = "done" /\ ~exactError) =>
    /\ Len(SignificantWords) >= 1 =>
         \A d \in HoldAllSignificant : InPass(exactResults, d.id)
    /\ \A i, j \in 1..Len(exactResults) :
         /\ Matched(exactResults[i]) = Matched(exactResults[j])
              => exactResults[i].raw = exactResults[j].raw
         /\ Matched(exactResults[i]) < Matched(exactResults[j])
              => exactResults[i].raw <= exactResults[j].raw
    /\ \A i \in 1..Len(exactResults) : exactResults[i].raw < Milli(1000)

\* What holds in the fiche route and in the PSE chat route when the embedding
\* was answered: the pass runs with one significant word, and the similarity
\* of a hit is 0.7 + 0.25 * fraction (0.75 + 0.2 * fraction), 0.95 at most.
FicheRoutesScoreByFraction ==
  (spc = "done" /\ ~exactError /\ ~embedFailed /\ variant # "chat") =>
    /\ Len(SignificantWords) >= 1 =>
         \A d \in HoldAllSignificant : InPass(exactResults, d.id)
    /\ \A i \in 1..Len(exactResults) :
         /\ exactResults[i].raw * Len(SignificantWords) =
              IF variant = "fiches"
              THEN Milli(700) * Len(SignificantWords) + Milli(250) * Matched(exactResults[i])
              ELSE Milli(750) * Len(SignificantWords) + Milli(200) * Matched(exactResults[i])
         /\ exactResults[i].raw <= Milli(950)

\* The embedding call threw: the lexical pass was never run, although the
\* query has significant words and rows hold them.
LexicalPassNotRun ==
  /\ spc = "done"
  /\ embedFailed
  /\ Len(SignificantWords) >= 1
  /\ HoldAllSignificant # {}
  /\ exactResults = << >>

\* The chat route with one significant word: no lexical pass.
ChatOneWordNoPass ==
  /\ spc = "done"
  /\ variant = "chat"
  /\ ~embedFailed /\ ~exactError
  /\ Len(SignificantWords) = 1
  /\ HoldAllSignificant # {}
  /\ exactResults = << >>

\* The chat route: two hits with the same matched words, 0.85 and 0.97.
ChatBonusNotByFraction ==
  /\ spc = "done"
  /\ variant = "chat"
  /\ \E i, j \in 1..Len(exactResults) :
       /\ Matched(exactResults[i]) = Matched(exactResults[j])
       /\ exactResults[i].raw = Milli(850)
       /\ exactResults[j].raw = Milli(970)

(***************************************************************************)
(* Claims about the loop of splitIntoChunks.                               *)
(***************************************************************************)
\* The window of the k-th turn ended at a break point.
AtBreakPoint(k) == cwindows[k].end # cwindows[k].start + CHUNK_SIZE

\* The start of the turn after the k-th one.
StartAfter(k) == IF k < Len(cwindows) THEN cwindows[k + 1].start ELSE cstart

\* The smallest and the largest step of the start.
MIN_STEP == CHUNK_SIZE \div 2 + 2 - CHUNK_OVERLAP
FULL_STEP == CHUNK_SIZE - CHUNK_OVERLAP

StartsIncrease ==
  /\ cstart >= 0
  /\ \A k \in 1..Len(cwindows) :
       /\ cwindows[k].start >= 0
       /\ cwindows[k].start < Len(ccleaned)
       /\ AtBreakPoint(k)  => StartAfter(k) - cwindows[k].start >= MIN_STEP
       /\ ~AtBreakPoint(k) => StartAfter(k) - cwindows[k].start = FULL_STEP
  /\ MIN_STEP * (Len(cwindows) - 1) <= Len(ccleaned)

\* C26: splitIntoChunks terminates: the start of the window is never negative
\* and grows at every turn of the loop, by 152 characters at least when the
\* window ends at a break point and by 400 otherwise, and the function returns.
C26_ChunkLoopTerminates ==
  /\ []StartsIncrease
  /\ [][cstart' >= cstart]_vars
  /\ <>(cpc = "done")

\* The function returned after three turns, one that ended at a break point
\* and one that did not.
C26_Witness ==
  /\ cpc = "done"
  /\ Len(cwindows) >= 3
  /\ \E k \in 1..Len(cwindows) : AtBreakPoint(k) /\ StartAfter(k) - cwindows[k].start = MIN_STEP
  /\ \E k \in 1..Len(cwindows) : ~AtBreakPoint(k)

\* C27: every chunk returned by splitIntoChunks but the first holds a character
\* of the cleaned text that lies past the end of the chunk before it.
C27_ChunkGoesBeyondPrevious ==
  \A k \in 1..(Len(chunks) - 1) : chunks[k + 1].to > chunks[k].to

\* The first window reached the end of the text, and the tail left by the
\* overlap was returned as a second chunk: it is a suffix of the first.
LastChunkInsidePrevious ==
  /\ cpc = "done"
  /\ Len(chunks) = 2
  /\ cwindows[1].end >= Len(ccleaned)
  /\ chunks[1].from <= chunks[2].from
  /\ chunks[2].to = chunks[1].to
  /\ chunks[2].content = Slice(chunks[1].content, chunks[2].from - chunks[1].from,
                               Len(chunks[1].content))

\* What holds: the end of a chunk is never before the end of the chunk before
\* it, and its start is past the start of that chunk.
ChunksNeverGoBack ==
  \A k \in 1..(Len(chunks) - 1) :
    /\ chunks[k + 1].to >= chunks[k].to
    /\ chunks[k + 1].from > chunks[k].from

(***************************************************************************)
(* Claims about the content parseFiche returns.                            *)
(***************************************************************************)
\* The first line of the content of the k-th document of the search matches
\* the header pattern.
StartsWithHeader(k) == HeaderMatch(FirstLine(documents[k].content)).ok

\* C28: parseFiche takes the first line out of the content only when it is a
\* fiche header: the fiche of a document whose first line is no header has the
\* whole content of the document, and it is not empty.
C28_BodyKeptWithoutHeader ==
  (ppc = "done" /\ response.kind = "fiches") =>
    \A k \in 1..Len(documents) :
      ~StartsWithHeader(k) =>
        /\ ParsedDocuments[k].content = Trim(documents[k].content)
        /\ ParsedDocuments[k].content # << >>
        /\ \E n \in 1..Len(response.fiches) : response.fiches[n] = ParsedDocuments[k]

\* A one-line chunk without header was found, and the fiche returned for it
\* has the title "Document" and an empty content.
ChunkReturnedEmpty ==
  /\ ppc = "done"
  /\ response.kind = "fiches"
  /\ \E k \in 1..Len(documents) :
       /\ documents[k].content = ContentMalaise
       /\ ~StartsWithHeader(k)
       /\ \E n \in 1..Len(response.fiches) :
            /\ response.fiches[n] = ParsedDocuments[k]
            /\ response.fiches[n].content = << >>
            /\ response.fiches[n].title = <<"D", "o", "c", "u", "m", "e", "n", "t">>

\* What holds: the content of a fiche is what follows the first line of the
\* document, whatever that line is.
FirstLineAlwaysRemoved ==
  (ppc = "done" /\ response.kind = "fiches") =>
    \A k \in 1..Len(documents) :
      ParsedDocuments[k].content = AfterFirstLine(documents[k].content)

\* Every chunk splitIntoChunks returns is one line, so that nothing of it
\* follows its first line.
ChunksAreOneLine ==
  \A k \in 1..Len(chunks) :
    /\ ~Includes(chunks[k].content, <<"\n">>)
    /\ AfterFirstLine(chunks[k].content) = << >>

(***************************************************************************)
(* Claims about the relevance check of searchDocuments.                    *)
(***************************************************************************)
\* The original query has no word of more than 4 characters.
NoLongWord ==
  \A w \in Range(SplitWs(ToLowerCase(originalQuery))) : Len(w) <= 4

\* The pass gave the row 0.9 or more.
NearCertain(row) == 10 * row.raw >= 9 * SIM_UNIT

\* The similarity of the row is 0.4 times what its pass gave.
HasPenalty(row) == 5 * row.similarity = 2 * row.raw /\ row.similarity < row.raw

\* C30: in the fiche route and the PSE chat route the penalty is applied once
\* per id at most: the similarity of every row kept, and of every row returned,
\* is what its pass gave or 0.4 times that, never more; it is what the pass
\* gave when that is 0.9 or more or when the title holds a word of more than 4
\* characters of the original query; and when the query has no such word,
\* every row whose pass gave less than 0.9 has the penalty.
C30_PenaltyOncePerId ==
  (spc = "done" /\ variant \in {"fiches", "chatpse"}) =>
    /\ \A i, j \in 1..Len(combinedResults) :
         combinedResults[i].id = combinedResults[j].id => i = j
    /\ \A k \in 1..Len(result) :
         \E i \in 1..Len(combinedResults) : combinedResults[i] = result[k]
    /\ \A i \in 1..Len(combinedResults) :
         LET row == combinedResults[i]
         IN  /\ row.similarity = row.raw \/ HasPenalty(row)
             /\ row.similarity <= row.raw
             /\ (NearCertain(row) \/ ~OffTopic(row.content)) => row.similarity = row.raw
             /\ (NoLongWord /\ ~NearCertain(row)) => HasPenalty(row)

\* A search returned a row with the penalty, a row on the topic that its pass
\* gave less than 0.9, and a row off the topic that its pass gave 0.9 or more.
C30_Witness ==
  /\ spc = "done"
  /\ variant \in {"fiches", "chatpse"}
  /\ \E k \in 1..Len(result) : HasPenalty(result[k])
  /\ \E k \in 1..Len(result) :
       /\ ~OffTopic(result[k].content)
       /\ ~NearCertain(result[k])
       /\ result[k].similarity = result[k].raw
  /\ \E k \in 1..Len(result) :
       /\ OffTopic(result[k].content)
       /\ NearCertain(result[k])
       /\ result[k].similarity = result[k].raw

\* A query without a word of more than 4 characters: every row returned that
\* its pass gave less than 0.9 has the penalty, and there are such rows.
NoLongWordAllPenalized ==
  /\ spc = "done"
  /\ variant \in {"fiches", "chatpse"}
  /\ NoLongWord
  /\ \E k \in 1..Len(result) : HasPenalty(result[k])
  /\ \E k \in 1..Len(result) : NearCertain(result[k]) /\ ~HasPenalty(result[k])

====
